---------------------------- MODULE Spec2Model ----------------------------
(***************************************************************************)
(* Patient-narrative generator: template selection, placeholder filling,   *)
(* business-rule normalisation, narrative assembly and the optional        *)
(* enhancement step, modelled from src/src/narrative_generator.py,         *)
(* src/src/field_mapper.py and src/src/ai_enhancer.py.                     *)
(*                                                                         *)
(* Python values are tagged records: None, str and int.  Text is a TLA+    *)
(* string handled character by character with Len, SubSeq and \o.          *)
(***************************************************************************)
EXTENDS Integers, Sequences, FiniteSets, TLC

VARIABLES
    templates,           \* NarrativeGenerator.templates (the loaded template config)
    enhancer,            \* NarrativeGenerator.enhancer (None or a collaborator)
    subjects,            \* table subjects: subject_id -> row
    adverse_events,      \* table adverse_events: <<subject_id, sequence_number>> -> row
    treatment_exposure,  \* table treatment_exposure: subject_id -> row
    narratives,          \* table narratives: the sequence of appended rows
    clock,               \* the wall clock datetime.utcnow() reads, in ticks
    call,                \* the operation invoked last, with its arguments
    ret,                 \* the outcome of that operation: a return value or an exception
    enhance_calls,       \* the enhance calls the collaborator received in the last request
    documents,           \* the files written to the output directory, in order
    connections          \* the database connections of save_to_database calls in progress

vars == <<templates, enhancer, subjects, adverse_events, treatment_exposure,
          narratives, clock, call, ret, enhance_calls, documents, connections>>

---------------------------------------------------------------------------
(* Python values and outcomes                                              *)

None == [t |-> "NoneType"]
PyStr(s) == [t |-> "str", v |-> s]
PyInt(n) == [t |-> "int", v |-> n]

\* The empty dict {} and the empty list [].
EmptyDict == << >>

\* dict.get(key): the value, or None when the key is absent.
Get(d, key) == IF key \in DOMAIN d THEN d[key] ELSE None

\* Python truthiness of the values the model uses.
Truthy(x) ==
    /\ x # None
    /\ x # PyStr("")
    /\ x # PyInt(0)
    /\ x # EmptyDict

\* Python's `a or b`.
Or(a, b) == IF Truthy(a) THEN a ELSE b

\* The outcome of an invocation: still running, returned a value, or raised.
Pending == [state |-> "pending"]
Return(value) == [state |-> "returned", value |-> value]
Raise(exc, msg) == [state |-> "raised", exc |-> exc, msg |-> msg]

Returned(r) == r.state = "returned"
Raised(r) == r.state = "raised"

NoCall == [op |-> "none"]

---------------------------------------------------------------------------
(* Characters                                                              *)

UpperAlpha == "ABCDEFGHIJKLMNOPQRSTUVWXYZ"
LowerAlpha == "abcdefghijklmnopqrstuvwxyz"
Digits == "0123456789"

Char(s, i) == SubSeq(s, i, i)

\* The least element of a non-empty set of integers.
Min(S) == CHOOSE x \in S : \A y \in S : x <= y

\* Index of character c in alphabet a, 0 when absent.
IndexIn(a, c) ==
    IF \E i \in 1..Len(a) : Char(a, i) = c
    THEN CHOOSE i \in 1..Len(a) : Char(a, i) = c
    ELSE 0

UpperLetters == {Char(UpperAlpha, i) : i \in 1..26}
LowerLetters == {Char(LowerAlpha, i) : i \in 1..26}
DigitChars == {Char(Digits, i) : i \in 1..10}

ToUpper == [c \in LowerLetters |-> Char(UpperAlpha, IndexIn(LowerAlpha, c))]
ToLower == [c \in UpperLetters |-> Char(LowerAlpha, IndexIn(UpperAlpha, c))]
DigitValue == [c \in DigitChars |-> IndexIn(Digits, c) - 1]

IsUpper(c) == c \in UpperLetters
IsLower(c) == c \in LowerLetters
IsDigit(c) == c \in DigitChars

UpperChar(c) == IF IsLower(c) THEN ToUpper[c] ELSE c
LowerChar(c) == IF IsUpper(c) THEN ToLower[c] ELSE c

RECURSIVE Upper(_)
\* str.upper(), by halves
Upper(s) ==
    IF s = "" THEN ""
    ELSE IF Len(s) = 1 THEN UpperChar(s)
    ELSE Upper(SubSeq(s, 1, Len(s) \div 2)) \o Upper(SubSeq(s, Len(s) \div 2 + 1, Len(s)))

RECURSIVE Lower(_)
\* str.lower(), by halves
Lower(s) ==
    IF s = "" THEN ""
    ELSE IF Len(s) = 1 THEN LowerChar(s)
    ELSE Lower(SubSeq(s, 1, Len(s) \div 2)) \o Lower(SubSeq(s, Len(s) \div 2 + 1, Len(s)))

---------------------------------------------------------------------------
(* Template configuration (configs/narrative_templates.json, loaded once)  *)

TemplateKeys ==
    {"sae_hospitalization", "sae_medically_important", "sae_generic", "ae_non_serious"}

TemplateId(key) ==
    CASE key = "sae_hospitalization" -> "SAE_HOSP_V1"
      [] key = "sae_medically_important" -> "SAE_MED_IMP_V1"
      [] key = "sae_generic" -> "SAE_GENERIC_V1"
      [] OTHER -> "AE_NON_SERIOUS_V1"

\* A template entry without paragraphs, enough for template selection.
BareTemplate(key) == [template_id |-> TemplateId(key), paragraphs |-> << >>]

\* Every configuration: each key absent, present but empty ({}), or a template.
TemplateConfigs ==
    LET Shapes == [TemplateKeys -> {"absent", "empty", "template"}]
    IN  { [key \in {k \in TemplateKeys : shape[k] # "absent"} |->
              IF shape[key] = "empty" THEN EmptyDict ELSE BareTemplate(key)]
          : shape \in Shapes }

---------------------------------------------------------------------------
(* NarrativeGenerator.select_template                                      *)

\* (event_data.get(flag) or "").upper()
NormalizeFlag(event_data, flag) == Upper(Or(Get(event_data, flag), PyStr("")).v)

\* Mutants of the cascade's conditions.
Priority1_UnlessMedImp(serious, hosp, med_imp) ==
    serious = "Y" /\ hosp = "Y" /\ med_imp # "Y"
Priority1_AnySerious(serious, hosp, med_imp) == serious = "Y"
Priority3_OnlyExplicitNo(serious, hosp, med_imp) == serious = "Y" /\ hosp = "N"
Priority4_UnlessExplicitNo(serious, hosp, med_imp) == serious # "N"
Configured_KeyPresent(tpls, key) == key \in DOMAIN tpls

\* Priority 1: hospitalization SAE.
Priority1(serious, hosp, med_imp) == serious = "Y" /\ hosp = "Y"

\* Priority 2: medically important SAE (no hospitalization).
Priority2(serious, hosp, med_imp) == serious = "Y" /\ hosp = "N" /\ med_imp = "Y"

\* Priority 3: any SAE without hospitalization (fallback).
Priority3(serious, hosp, med_imp) == serious = "Y" /\ hosp # "Y"

\* Priority 4: any SAE (ultimate fallback).
Priority4(serious, hosp, med_imp) == serious = "Y"

\* The ValueError raised when no template resolves.
NoTemplateError(tpls, serious, hosp, med_imp) ==
    Raise("ValueError",
          [text |-> "No suitable template found.",
           serious |-> serious,
           hospitalization |-> hosp,
           medically_important |-> med_imp,
           available |-> DOMAIN tpls])

\* `template = self.templates.get(key); if template:`
Configured(tpls, key) == Truthy(Get(tpls, key))

select_template(tpls, event_data) ==
    LET serious == NormalizeFlag(event_data, "serious_event")
        hosp == NormalizeFlag(event_data, "hospitalization")
        med_imp == NormalizeFlag(event_data, "other_medically_important")
    IN  IF Priority1(serious, hosp, med_imp) /\ Configured(tpls, "sae_hospitalization")
        THEN Return(tpls["sae_hospitalization"])
        ELSE IF Priority2(serious, hosp, med_imp)
                /\ Configured(tpls, "sae_medically_important")
        THEN Return(tpls["sae_medically_important"])
        ELSE IF Priority3(serious, hosp, med_imp)
                /\ Configured(tpls, "sae_medically_important")
        THEN Return(tpls["sae_medically_important"])
        ELSE IF Priority4(serious, hosp, med_imp) /\ Configured(tpls, "sae_generic")
        THEN Return(tpls["sae_generic"])
        ELSE IF Priority4(serious, hosp, med_imp)
                /\ Configured(tpls, "sae_hospitalization")
        THEN Return(tpls["sae_hospitalization"])
        ELSE IF Configured(tpls, "ae_non_serious")
        THEN Return(tpls["ae_non_serious"])
        ELSE NoTemplateError(tpls, serious, hosp, med_imp)

---------------------------------------------------------------------------
(* NarrativeGenerator.fill_template and string.Formatter.vformat           *)

NotAvailable == "[NOT AVAILABLE]"

RECURSIVE NatToStr(_)
\* str(n) for n >= 0
NatToStr(n) ==
    IF n < 10 THEN Char(Digits, n + 1)
    ELSE NatToStr(n \div 10) \o Char(Digits, (n % 10) + 1)

\* format(value, ""): the text of a str or an int.
PyFormat(value) ==
    IF value.t = "str" THEN value.v
    ELSE IF value.t = "int"
    THEN IF value.v < 0 THEN "-" \o NatToStr(-value.v) ELSE NatToStr(value.v)
    ELSE "None"

\* Mutants of the missing-value test and of the missing-key lookup.
IsMissingValue_NoUpperNaN(value) == value \in {None, PyStr(""), PyStr("nan")}
IsMissingValue_OnlyNone(value) == value = None

\* value in (None, "", "nan", "NaN")
IsMissingValue(value) == value \in {None, PyStr(""), PyStr("nan"), PyStr("NaN")}

\* The dict comprehension wrapped in _SafeDict.
safe_dict(field_values) ==
    [key \in DOMAIN field_values |->
        IF IsMissingValue(field_values[key])
        THEN PyStr(NotAvailable)
        ELSE field_values[key]]

\* _SafeDict.__missing__
SafeDict_missing(key) == Return(PyStr(NotAvailable))

\* kwargs[key] on a _SafeDict: a missing key goes to __missing__.
SafeDict_getitem(d, key) == IF key \in DOMAIN d THEN Return(d[key]) ELSE SafeDict_missing(key)

\* Position of the first "}" at or after i, 0 when there is none.
CloseBrace(text, i) ==
    LET closing == {j \in i..Len(text) : Char(text, j) = "}"}
    IN  IF closing = {} THEN 0 ELSE Min(closing)

AllDigits(s) == \A j \in 1..Len(s) : IsDigit(Char(s, j))

\* An outcome with `prefix` put before the text it returns; an exception passes.
Prepend(prefix, outcome) ==
    IF Raised(outcome) THEN outcome ELSE Return(prefix \o outcome.value)

\* What vformat does at the brace at position i.
RECURSIVE vformat(_, _, _)
AtBrace(text, i, d) ==
    IF Char(text, i) = "{"
    THEN IF i = Len(text)
         THEN Raise("ValueError", "Single '{' encountered in format string")
         ELSE IF Char(text, i + 1) = "{"
         THEN Prepend("{", vformat(text, i + 2, d))
         ELSE IF CloseBrace(text, i) = 0
         THEN Raise("ValueError", "expected '}' before end of string")
         ELSE LET close == CloseBrace(text, i)
                  name == SubSeq(text, i + 1, close - 1)
                  item == SafeDict_getitem(d, name)
              IN  IF AllDigits(name)
                  THEN Raise("IndexError", "tuple index out of range")
                  ELSE IF Raised(item)
                  THEN item
                  ELSE Prepend(PyFormat(item.value), vformat(text, close + 1, d))
    ELSE IF i < Len(text) /\ Char(text, i + 1) = "}"
         THEN Prepend("}", vformat(text, i + 2, d))
         ELSE Raise("ValueError", "Single '}' encountered in format string")

\* Formatter.vformat(template_text, (), d) from position i: literal text,
\* the escapes {{ and }}, and {name} fields looked up in d.  An empty or
\* numeric field indexes the empty args tuple.
vformat(text, i, d) ==
    LET braces == {j \in i..Len(text) : Char(text, j) \in {"{", "}"}}
    IN  IF braces = {}
        THEN Return(SubSeq(text, i, Len(text)))
        ELSE Prepend(SubSeq(text, i, Min(braces) - 1), AtBrace(text, Min(braces), d))

\* The `except KeyError` handler turns a failed lookup into ValueError.
fill_template(template_text, field_values) ==
    LET outcome == vformat(template_text, 1, safe_dict(field_values))
    IN  IF Raised(outcome) /\ outcome.exc = "KeyError"
        THEN Raise("ValueError",
                   [text |-> "Template requires field which is not available in data",
                    field |-> outcome.msg,
                    available |-> DOMAIN field_values])
        ELSE outcome

---------------------------------------------------------------------------
(* Dates: datetime.strptime and strftime("%d-%b-%Y")                       *)

MonthAbbr ==
    <<"Jan", "Feb", "Mar", "Apr", "May", "Jun", "Jul", "Aug", "Sep", "Oct", "Nov", "Dec">>

RECURSIVE StrToNat(_)
\* int(s) for a string of digits
StrToNat(s) ==
    IF s = "" THEN 0
    ELSE 10 * StrToNat(SubSeq(s, 1, Len(s) - 1)) + DigitValue[Char(s, Len(s))]

IsLeap(year) == (year % 4 = 0) /\ ((year % 100 # 0) \/ (year % 400 = 0))

DaysInMonth(year, month) ==
    IF month = 2 THEN (IF IsLeap(year) THEN 29 ELSE 28)
    ELSE IF month \in {4, 6, 9, 11} THEN 30 ELSE 31

\* datetime(year, month, day) exists.
ValidDate(year, month, day) ==
    /\ year >= 1
    /\ month \in 1..12
    /\ day >= 1
    /\ day <= DaysInMonth(year, month)

Pad2(n) == IF n < 10 THEN "0" \o NatToStr(n) ELSE NatToStr(n)

\* strftime("%d-%b-%Y"); glibc writes the year without padding.
strftime(date) ==
    Pad2(date.day) \o "-" \o MonthAbbr[date.month] \o "-" \o NatToStr(date.year)

---------------------------------------------------------------------------
(* NarrativeGenerator.apply_business_rules: seven re.sub passes            *)

IsWordChar(c) == IsUpper(c) \/ IsLower(c) \/ IsDigit(c) \/ c = "_"

\* \b between positions i-1 and i of text.
WordBoundary(text, i) ==
    LET before == i > 1 /\ i - 1 <= Len(text) /\ IsWordChar(Char(text, i - 1))
        after == i >= 1 /\ i <= Len(text) /\ IsWordChar(Char(text, i))
    IN  before # after

\* pat occurs in text at position i.
At(text, i, pat) ==
    /\ i + Len(pat) - 1 <= Len(text)
    /\ SubSeq(text, i, i + Len(pat) - 1) = pat

\* Mutant of re.IGNORECASE: the pattern is matched in its own letter case.
AtIgnoreCase_CaseSensitive(text, i, pat) == At(text, i, pat)

\* pat occurs in text at position i, letter case ignored.
AtIgnoreCase(text, i, pat) ==
    /\ i + Len(pat) - 1 <= Len(text)
    /\ \A k \in 1..Len(pat) : LowerChar(Char(text, i + k - 1)) = LowerChar(Char(pat, k))

\* Last position of the clause [^\.]* that starts at i (i - 1 when empty).
EndOfClause(text, i) ==
    LET stops == {j \in i..Len(text) : Char(text, j) = "."}
    IN  IF stops = {} THEN Len(text) ELSE Min(stops) - 1

\* Last position of the digits \d* that start at i (i - 1 when there are none).
EndOfDigits(text, i) ==
    LET stops == {j \in i..Len(text) : ~IsDigit(Char(text, j))}
    IN  IF stops = {} THEN Len(text) ELSE Min(stops) - 1

\* \bWORD\b at position i, case-sensitive or not.
WordAt(text, i, word, ignore_case) ==
    /\ IF ignore_case THEN AtIgnoreCase(text, i, word) ELSE At(text, i, word)
    /\ WordBoundary(text, i)
    /\ WordBoundary(text, i + Len(word))

\* \b\d{4}-\d{2}-\d{2}\b at position i.
IsoDateAt(text, i) ==
    /\ i + 9 <= Len(text)
    /\ \A k \in {0, 1, 2, 3, 5, 6, 8, 9} : IsDigit(Char(text, i + k))
    /\ Char(text, i + 4) = "-"
    /\ Char(text, i + 7) = "-"
    /\ WordBoundary(text, i)
    /\ WordBoundary(text, i + 10)

\* _date_repl: strptime(raw, "%Y-%m-%d") then strftime, raw on ValueError.
date_repl(raw) ==
    LET year == StrToNat(SubSeq(raw, 1, 4))
        month == StrToNat(SubSeq(raw, 6, 7))
        day == StrToNat(SubSeq(raw, 9, 10))
    IN  IF ValidDate(year, month, day)
        THEN strftime([year |-> year, month |-> month, day |-> day])
        ELSE raw

ActionTakenPhrase == "action taken with study drug was "
CausalityPhrase == "assessed the event as "

RulePasses ==
    <<"last_dose", "iso_date", "action_taken", "causality", "age",
      "WHITE", "BLACK OR AFRICAN AMERICAN", "ASIAN", "NOT HISPANIC OR LATINO",
      "HISPANIC OR LATINO", "sae_of">>

TitleCase(token) ==
    CASE token = "WHITE" -> "White"
      [] token = "BLACK OR AFRICAN AMERICAN" -> "Black or African American"
      [] token = "ASIAN" -> "Asian"
      [] token = "NOT HISPANIC OR LATINO" -> "Not Hispanic or Latino"
      [] OTHER -> "Hispanic or Latino"

ClausePhrase(pass) == IF pass = "action_taken" THEN ActionTakenPhrase ELSE CausalityPhrase

\* Last position of the match of a pass's pattern that starts at i, 0 when
\* the pattern does not match there.
MatchEnd(pass, text, i) ==
    CASE pass = "last_dose" ->
            IF WordAt(text, i, "last dose", TRUE) THEN i + 8 ELSE 0
      [] pass = "iso_date" ->
            IF IsoDateAt(text, i) THEN i + 9 ELSE 0
      [] pass \in {"action_taken", "causality"} ->
            LET from == i + Len(ClausePhrase(pass))
            IN  IF AtIgnoreCase(text, i, ClausePhrase(pass))
                   /\ EndOfClause(text, from) >= from
                THEN EndOfClause(text, from)
                ELSE 0
      [] pass = "age" ->
            LET last == EndOfDigits(text, i)
            IN  IF i <= Len(text) /\ IsDigit(Char(text, i))
                   /\ AtIgnoreCase(text, last + 1, "-YEARS-old")
                THEN last + 10
                ELSE 0
      [] pass = "sae_of" ->
            IF At(text, i, "SAE of ") /\ i + 7 <= Len(text) /\ IsUpper(Char(text, i + 7))
            THEN i + 7
            ELSE 0
      [] OTHER ->
            IF WordAt(text, i, pass, FALSE) THEN i + Len(pass) - 1 ELSE 0

\* What a pass writes for the match text[i..last].
Replacement(pass, text, i, last) ==
    CASE pass = "last_dose" -> "most recent dose"
      [] pass = "iso_date" -> date_repl(SubSeq(text, i, last))
      [] pass \in {"action_taken", "causality"} ->
            LET from == i + Len(ClausePhrase(pass))
            IN  SubSeq(text, i, from - 1) \o Lower(SubSeq(text, from, last))
      [] pass = "age" -> SubSeq(text, i, last - 10) \o "-year-old"
      [] pass = "sae_of" -> SubSeq(text, i, last - 1) \o LowerChar(Char(text, last))
      [] OTHER -> TitleCase(pass)

RECURSIVE re_sub(_, _, _)
\* re.sub for one pass: non-overlapping matches, leftmost first, from i on.
re_sub(pass, text, i) ==
    LET starts == {j \in i..Len(text) : MatchEnd(pass, text, j) # 0}
    IN  IF starts = {}
        THEN SubSeq(text, i, Len(text))
        ELSE LET first == Min(starts)
                 last == MatchEnd(pass, text, first)
             IN  SubSeq(text, i, first - 1)
                 \o Replacement(pass, text, first, last)
                 \o re_sub(pass, text, last + 1)

RECURSIVE ApplyPasses(_, _)
ApplyPasses(passes, text) ==
    IF passes = << >> THEN text
    ELSE ApplyPasses(Tail(passes), re_sub(Head(passes), text, 1))

apply_business_rules(text) == ApplyPasses(RulePasses, text)

---------------------------------------------------------------------------
(* FieldMapper: value mapping, date formatting, map_all_fields             *)

\* A day token of strptime's %d: 1-9, 01-31, or a blank and 1-9.
DayToken(s) ==
    \/ Len(s) = 1 /\ IsDigit(s) /\ s # "0"
    \/ /\ Len(s) = 2
       /\ \/ Char(s, 1) = " " /\ IsDigit(Char(s, 2)) /\ Char(s, 2) # "0"
          \/ AllDigits(s) /\ StrToNat(s) \in 1..31

DayValue(s) == IF Char(s, 1) = " " THEN StrToNat(Char(s, 2)) ELSE StrToNat(s)

\* A month token of strptime's %m: 1-9 or 01-12.
MonthToken(s) == Len(s) \in {1, 2} /\ AllDigits(s) /\ StrToNat(s) \in 1..12

\* Index of the month abbreviation s in any letter case, 0 when it is none.
MonthIndex(s) ==
    IF \E m \in 1..12 : Lower(MonthAbbr[m]) = Lower(s)
    THEN CHOOSE m \in 1..12 : Lower(MonthAbbr[m]) = Lower(s)
    ELSE 0

NoDate == [year |-> 0, month |-> 0, day |-> 0]

\* strptime(value, "%Y-%m-%d"): NoDate stands for ValueError.
StrptimeIso(s) ==
    LET n == Len(s)
        dash == IF n >= 7 /\ Char(s, 7) = "-" THEN 7 ELSE 8
        ok == /\ n >= 8
              /\ AllDigits(SubSeq(s, 1, 4))
              /\ Char(s, 5) = "-"
              /\ dash < n
              /\ Char(s, dash) = "-"
              /\ MonthToken(SubSeq(s, 6, dash - 1))
              /\ DayToken(SubSeq(s, dash + 1, n))
        date == [year |-> StrToNat(SubSeq(s, 1, 4)),
                 month |-> StrToNat(SubSeq(s, 6, dash - 1)),
                 day |-> DayValue(SubSeq(s, dash + 1, n))]
    IN  IF ok /\ ValidDate(date.year, date.month, date.day) THEN date ELSE NoDate

\* strptime(value, "%d-%b-%Y")
StrptimeDmy(s) ==
    LET n == Len(s)
        dash == IF n >= 2 /\ Char(s, 2) = "-" THEN 2 ELSE 3
        ok == /\ n = dash + 8
              /\ Char(s, dash) = "-"
              /\ DayToken(SubSeq(s, 1, dash - 1))
              /\ MonthIndex(SubSeq(s, dash + 1, dash + 3)) # 0
              /\ Char(s, dash + 4) = "-"
              /\ AllDigits(SubSeq(s, dash + 5, n))
        date == [year |-> StrToNat(SubSeq(s, dash + 5, n)),
                 month |-> MonthIndex(SubSeq(s, dash + 1, dash + 3)),
                 day |-> DayValue(SubSeq(s, 1, dash - 1))]
    IN  IF ok /\ ValidDate(date.year, date.month, date.day) THEN date ELSE NoDate

\* A date parser that knows the ISO form only.
parse_date_IsoOnly(value) ==
    IF value.t # "str" THEN NoDate ELSE StrptimeIso(value.v)

\* FieldMapper._parse_date: ISO first, then DD-Mon-YYYY; NoDate stands for
\* None.  A value that is not a string raises TypeError in both attempts.
parse_date(value) ==
    IF value.t # "str" THEN NoDate
    ELSE IF StrptimeIso(value.v) # NoDate THEN StrptimeIso(value.v)
    ELSE StrptimeDmy(value.v)

apply_value_mapping(field_name, value, config) ==
    LET value_map == Get(config, "value_map")
        mapped_value == Or(Get(value_map, Upper(PyFormat(value))),
                           IF value.t = "str" THEN Get(value_map, value.v) ELSE None)
    IN  IF value = None \/ ~Truthy(value_map) THEN value
        ELSE IF mapped_value = None THEN value
        ELSE mapped_value

format_field(field_name, value, config) ==
    IF value = None THEN None
    ELSE IF Get(config, "format") = PyStr("date") /\ parse_date(value) # NoDate
    THEN PyStr(strftime(parse_date(value)))
    ELSE value

\* configs/field_mappings.json, its sections flattened in file order.
FieldConfig ==
    << [name |-> "age", db_table |-> "subjects", db_column |-> "age"],
       [name |-> "sex", db_table |-> "subjects", db_column |-> "sex",
        value_map |-> [M |-> PyStr("male"), F |-> PyStr("female"),
                       MALE |-> PyStr("male"), FEMALE |-> PyStr("female")]],
       [name |-> "last_dose_date", db_table |-> "treatment_exposure",
        db_column |-> "last_dose_date", format |-> PyStr("date")],
       [name |-> "preferred_term", db_table |-> "adverse_events",
        db_column |-> "preferred_term"],
       [name |-> "start_date", db_table |-> "adverse_events",
        db_column |-> "start_date", format |-> PyStr("date")],
       [name |-> "end_date", db_table |-> "adverse_events",
        db_column |-> "end_date", format |-> PyStr("date")],
       [name |-> "action_taken", db_table |-> "adverse_events",
        db_column |-> "action_taken"] >>

\* FieldMapper._fetch_one on a point lookup: the row as a dict, or None.
fetch_one(table, key) == IF key \in DOMAIN table THEN table[key] ELSE None

get_subject_data(subject_table, subject_id) == fetch_one(subject_table, subject_id)
get_treatment_data(treatment_table, subject_id) == fetch_one(treatment_table, subject_id)
get_event_data(event_table, subject_id, sequence_number) ==
    fetch_one(event_table, <<subject_id, sequence_number>>)

\* One field of the mapping: raw column value, value map, formatter.
MapField(field, data_sources) ==
    LET raw_value == Get(Get(data_sources, field.db_table), field.db_column)
    IN  format_field(field.name,
                     apply_value_mapping(field.name, raw_value, field),
                     field)

\* A resolver that leaves out the fields whose source row is missing.
map_all_fields_SkipsMissing(config, subject_table, event_table, treatment_table, subject_id, sequence_number) ==
    LET data_sources ==
            [subjects |-> Or(get_subject_data(subject_table, subject_id), EmptyDict),
             adverse_events |->
                 Or(get_event_data(event_table, subject_id, sequence_number), EmptyDict),
             treatment_exposure |->
                 Or(get_treatment_data(treatment_table, subject_id), EmptyDict)]
        Last(name) == CHOOSE i \in 1..Len(config) :
                          /\ config[i].name = name
                          /\ \A j \in (i + 1)..Len(config) : config[j].name # name
    IN  [name \in {config[i].name : i \in {j \in 1..Len(config) :
                                              data_sources[config[j].db_table] # EmptyDict}} |->
            MapField(config[Last(name)], data_sources)]

map_all_fields(config, subject_table, event_table, treatment_table, subject_id, sequence_number) ==
    LET data_sources ==
            [subjects |-> Or(get_subject_data(subject_table, subject_id), EmptyDict),
             adverse_events |->
                 Or(get_event_data(event_table, subject_id, sequence_number), EmptyDict),
             treatment_exposure |->
                 Or(get_treatment_data(treatment_table, subject_id), EmptyDict)]
        Last(name) == CHOOSE i \in 1..Len(config) :
                          /\ config[i].name = name
                          /\ \A j \in (i + 1)..Len(config) : config[j].name # name
    IN  [name \in {config[i].name : i \in 1..Len(config)} |->
            MapField(config[Last(name)], data_sources)]

---------------------------------------------------------------------------
(* OpenAINarrativeEnhancer.enhance and other enhancement collaborators     *)

IsSpace(c) == c \in {" ", "\n", "\t", "\r"}

LStrip(s) ==
    LET kept == {j \in 1..Len(s) : ~IsSpace(Char(s, j))}
    IN  IF kept = {} THEN "" ELSE SubSeq(s, Min(kept), Len(s))

RStrip(s) ==
    LET kept == {j \in 1..Len(s) : ~IsSpace(Char(s, j))}
    IN  IF kept = {} THEN "" ELSE SubSeq(s, 1, CHOOSE j \in kept : \A k \in kept : k <= j)

\* str.strip()
Strip(s) == LStrip(RStrip(s))

\* What the model may reply.
ReplyTexts == {"Enhanced narrative.", " History: None.\n"}

\* What client.chat.completions.create may do: raise (transport error,
\* timeout), answer without choices, or answer with a message content.
ClientResults ==
    {[kind |-> "raises"], [kind |-> "no_choices"]}
    \cup {[kind |-> "content", content |-> c]
             : c \in {None, PyStr("")} \cup {PyStr(r) : r \in ReplyTexts}}

\* OpenAINarrativeEnhancer.enhance: every exception of the try block falls
\* back to baseline_text; an empty content is replaced by baseline_text
\* before strip().
openai_enhance(client_result, field_values, template_id, baseline_text) ==
    IF client_result.kind \in {"raises", "no_choices"}
    THEN Return(baseline_text)
    ELSE Return(Strip(Or(client_result.content, PyStr(baseline_text)).v))

\* Any other object with an enhance method (the generator only calls
\* enhancer.enhance): it returns some text or raises.
CollaboratorResults ==
    {[kind |-> "raises"], [kind |-> "appends", text |-> "\n\n[Enhanced by OpenAI]"]}

collaborator_enhance(result, field_values, template_id, baseline_text) ==
    IF result.kind = "raises"
    THEN Raise("RuntimeError", "enhancement failed")
    ELSE Return(baseline_text \o result.text)

OpenAIEnhancer == [class |-> "OpenAINarrativeEnhancer"]
OtherEnhancer == [class |-> "collaborator"]

\* What the enhancer's environment may do during one enhance call.
EnhancerResults(enh) ==
    IF enh = None THEN {[kind |-> "not_called"]}
    ELSE IF enh = OpenAIEnhancer THEN ClientResults
    ELSE CollaboratorResults

---------------------------------------------------------------------------
(* NarrativeGenerator.generate_paragraph and generate_narrative            *)

\* dict.get on a dict of texts: "" stands for None (both are falsy).
GetText(d, key) == IF key \in DOMAIN d THEN d[key] ELSE ""

\* paragraph_config.get("variations"), {} when there is none (both falsy).
Variations(paragraph_config) ==
    IF "variations" \in DOMAIN paragraph_config
    THEN paragraph_config.variations
    ELSE EmptyDict

\* The variant key: with_end_date when field_values.get("end_date") is truthy.
VariationKey(field_values) ==
    IF Truthy(Get(field_values, "end_date")) THEN "with_end_date" ELSE "without_end_date"

generate_paragraph(paragraph_config, field_values) ==
    LET base_template == paragraph_config.template
        variations == Variations(paragraph_config)
        variation_text == GetText(variations, VariationKey(field_values))
        template_text ==
            IF variations # EmptyDict /\ variation_text # ""
            THEN base_template \o " " \o variation_text
            ELSE base_template
        Ruled(filled) ==
            IF Raised(filled) THEN filled ELSE Return(apply_business_rules(filled.value))
    IN  Ruled(fill_template(template_text, field_values))

\* Mutant of the sort: the paragraphs stay in configuration order.
SortedByNumber_ConfigurationOrder(paragraphs) == paragraphs

RECURSIVE SortedByNumber(_)
\* sorted(paragraphs, key=number): ascending and stable.
SortedByNumber(paragraphs) ==
    IF paragraphs = << >> THEN << >>
    ELSE LET first == CHOOSE i \in 1..Len(paragraphs) :
                          /\ \A j \in 1..Len(paragraphs) :
                                 paragraphs[i].number <= paragraphs[j].number
                          /\ \A j \in 1..(i - 1) :
                                 paragraphs[j].number # paragraphs[i].number
         IN  <<paragraphs[first]>>
             \o SortedByNumber(SubSeq(paragraphs, 1, first - 1)
                               \o SubSeq(paragraphs, first + 1, Len(paragraphs)))

\* One more paragraph text in front of the rest, or the first exception.
Collect(text, rest) ==
    IF Raised(text) THEN text
    ELSE IF Raised(rest) THEN rest
    ELSE Return(<<text.value>> \o rest.value)

RECURSIVE GenerateParagraphs(_, _)
\* The loop over the sorted paragraphs: the texts, or the first exception.
GenerateParagraphs(paragraphs, field_values) ==
    IF paragraphs = << >> THEN Return(<< >>)
    ELSE Collect(generate_paragraph(Head(paragraphs), field_values),
                 GenerateParagraphs(Tail(paragraphs), field_values))

RECURSIVE Join(_, _)
\* sep.join(texts)
Join(sep, texts) ==
    IF texts = << >> THEN ""
    ELSE IF Len(texts) = 1 THEN texts[1]
    ELSE texts[1] \o sep \o Join(sep, Tail(texts))

\* The enhancer call of generate_narrative, not guarded by any try.
Enhance(enh, enh_result, field_values, template_id, baseline_text) ==
    IF enh = OpenAIEnhancer
    THEN openai_enhance(enh_result, field_values, template_id, baseline_text)
    ELSE collaborator_enhance(enh_result, field_values, template_id, baseline_text)

\* One enhance call as the collaborator sees it, with what it answered.
EnhanceCall(field_values, template_id, baseline_text, outcome) ==
    [field_values |-> field_values, template_id |-> template_id,
     baseline_text |-> baseline_text, outcome |-> outcome]

\* A finished run of generate_narrative: its outcome and the enhance calls
\* it made.
Run(outcome, calls) == [outcome |-> outcome, enhance_calls |-> calls]

\* Mutant of the enhancer step: the baseline is returned and the enhancer
\* is never called.
EnhanceStep_NeverCalls(enh, enh_result, field_values, template_id, narrative_text) ==
    Run(Return(narrative_text), << >>)

\* The step `if self.enhancer:` of generate_narrative: one enhance call
\* with the field mapping, the template id and the joined text, whose
\* answer replaces the text; no call without an enhancer.
EnhanceStep(enh, enh_result, field_values, template_id, narrative_text) ==
    LET Called(outcome) ==
            Run(outcome,
                <<EnhanceCall(field_values, template_id, narrative_text, outcome)>>)
    IN  IF enh # None
        THEN Called(Enhance(enh, enh_result, field_values, template_id, narrative_text))
        ELSE Run(Return(narrative_text), << >>)

\* NarrativeGenerator.generate_narrative with the calls it makes: the
\* fields are mapped, the template selected, its paragraphs generated in
\* number order and joined by blank lines, and the enhancer, when there is
\* one, is given the text.
generate_narrative_run(tpls, enh, enh_result, config, subject_table, event_table, treatment_table, subject_id, sequence_number) ==
    LET Joined(field_values, template_id, paragraphs) ==
            IF Raised(paragraphs) THEN Run(paragraphs, << >>)
            ELSE EnhanceStep(enh, enh_result, field_values, template_id,
                             Join("\n\n", paragraphs.value))
        Generated(field_values, template) ==
            IF Raised(template) THEN Run(template, << >>)
            ELSE Joined(field_values, template.value.template_id,
                        GenerateParagraphs(SortedByNumber(template.value.paragraphs),
                                           field_values))
    IN  Generated(map_all_fields(config, subject_table, event_table, treatment_table,
                                 subject_id, sequence_number),
                  select_template(tpls,
                                  Or(get_event_data(event_table, subject_id,
                                                    sequence_number),
                                     EmptyDict)))

\* What generate_narrative returns or raises.
generate_narrative(tpls, enh, enh_result, config, subject_table, event_table, treatment_table, subject_id, sequence_number) ==
    generate_narrative_run(tpls, enh, enh_result, config, subject_table, event_table,
                           treatment_table, subject_id, sequence_number).outcome

---------------------------------------------------------------------------
(* Template selection as a state machine: Init draws the configuration and *)
(* the event row, the action applies select_template.                      *)

FlagNames == {"serious_event", "hospitalization", "other_medically_important"}

\* A flag column holds a string or NULL; "absent" is a row without the key
\* (the {} that stands for a missing event row).
FlagChoices ==
    {PyStr("Y"), PyStr("y"), PyStr("N"), PyStr("n"), PyStr("U"), PyStr(""), None,
     [t |-> "absent"]}

FlagEvents ==
    { [flag \in {f \in FlagNames : choice[f].t # "absent"} |-> choice[flag]]
      : choice \in [FlagNames -> FlagChoices] }

InitSelect ==
    /\ templates \in TemplateConfigs
    /\ enhancer = None
    /\ subjects = EmptyDict
    /\ adverse_events = EmptyDict
    /\ treatment_exposure = EmptyDict
    /\ narratives = << >>
    /\ clock = 0
    /\ call \in {[op |-> "select_template", event_data |-> ev] : ev \in FlagEvents}
    /\ ret = Pending
    /\ enhance_calls = << >>
    /\ documents = << >>
    /\ connections = << >>

SelectTemplate ==
    /\ call.op = "select_template"
    /\ ret = Pending
    /\ ret' = select_template(templates, call.event_data)
    /\ UNCHANGED <<templates, enhancer, subjects, adverse_events, treatment_exposure,
                   narratives, clock, call, enhance_calls, documents, connections>>

NextSelect == SelectTemplate

SelectSpec == InitSelect /\ [][NextSelect]_vars

---------------------------------------------------------------------------
(* Claims about template selection, stated on the raw flag values          *)

Selected == call.op = "select_template" /\ ret # Pending

\* The flag is "Y" in either letter case.
FlagIsYes(flag) == Get(call.event_data, flag) \in {PyStr("Y"), PyStr("y")}
FlagIsNo(flag) == Get(call.event_data, flag) \in {PyStr("N"), PyStr("n")}

\* The flag as the error message shows it.
FlagShown(flag) ==
    LET value == Get(call.event_data, flag)
    IN  CASE value \in {PyStr("Y"), PyStr("y")} -> "Y"
          [] value \in {PyStr("N"), PyStr("n")} -> "N"
          [] value = PyStr("U") -> "U"
          [] OTHER -> ""

Usable(key) == key \in DOMAIN templates /\ templates[key] = BareTemplate(key)

\* C1: an event whose serious_event and hospitalization flags are both "Y"
\* (in either letter case) gets the configured hospitalization template,
\* whatever other_medically_important is.
C1_HospitalizationTemplate ==
    (Selected /\ FlagIsYes("serious_event") /\ FlagIsYes("hospitalization")
        /\ Usable("sae_hospitalization"))
    => ret = Return(BareTemplate("sae_hospitalization"))

C1_Witness ==
    /\ Selected
    /\ Get(call.event_data, "serious_event") = PyStr("y")
    /\ Get(call.event_data, "hospitalization") = PyStr("Y")
    /\ Get(call.event_data, "other_medically_important") = PyStr("Y")
    /\ Usable("sae_medically_important") /\ Usable("sae_generic")
    /\ ret = Return(BareTemplate("sae_hospitalization"))

\* C2: serious_event "Y", hospitalization "N" and other_medically_important
\* "Y" select the configured medically-important template.
C2_MedicallyImportantTemplate ==
    (Selected /\ FlagIsYes("serious_event") /\ FlagIsNo("hospitalization")
        /\ FlagIsYes("other_medically_important")
        /\ Usable("sae_medically_important"))
    => ret = Return(BareTemplate("sae_medically_important"))

C2_Witness ==
    /\ Selected
    /\ Get(call.event_data, "serious_event") = PyStr("Y")
    /\ Get(call.event_data, "hospitalization") = PyStr("N")
    /\ Get(call.event_data, "other_medically_important") = PyStr("Y")
    /\ Usable("sae_hospitalization") /\ Usable("ae_non_serious")
    /\ ret = Return(BareTemplate("sae_medically_important"))

\* C3: a serious event whose hospitalization flag is not "Y" ("N", unknown,
\* empty, NULL or missing) gets the configured medically-important template
\* and no exception, whatever other_medically_important is.
C3_FallbackToMedicallyImportant ==
    (Selected /\ FlagIsYes("serious_event") /\ ~FlagIsYes("hospitalization")
        /\ Usable("sae_medically_important"))
    => ret = Return(BareTemplate("sae_medically_important"))

C3_Witness ==
    /\ Selected
    /\ Get(call.event_data, "serious_event") = PyStr("Y")
    /\ "hospitalization" \notin DOMAIN call.event_data
    /\ Get(call.event_data, "other_medically_important") = PyStr("N")
    /\ Usable("sae_generic") /\ Usable("sae_hospitalization")
    /\ ret = Return(BareTemplate("sae_medically_important"))

\* C4: an event whose serious_event flag is missing, NULL, empty or anything
\* but "Y" gets the non-serious template exactly as an event flagged "N"
\* does: the configured ae_non_serious template, and an exception only when
\* that template is not configured.
C4_NonSeriousTemplate ==
    (Selected /\ ~FlagIsYes("serious_event"))
    => IF Usable("ae_non_serious")
       THEN ret = Return(BareTemplate("ae_non_serious"))
       ELSE Raised(ret)

C4_Witness ==
    /\ Selected
    /\ "serious_event" \notin DOMAIN call.event_data
    /\ Get(call.event_data, "hospitalization") = PyStr("Y")
    /\ Get(call.event_data, "other_medically_important") = PyStr("Y")
    /\ Usable("sae_hospitalization") /\ Usable("sae_generic")
    /\ ret = Return(BareTemplate("ae_non_serious"))

\* The template the cascade designates for the event's flags.
Designated ==
    IF FlagIsYes("serious_event")
    THEN IF FlagIsYes("hospitalization")
         THEN "sae_hospitalization"
         ELSE "sae_medically_important"
    ELSE "ae_non_serious"

\* C5: when the template designated for the event's flags is not
\* configured, select_template raises and returns no other template.
C5_MissingTemplateIsFatal ==
    (Selected /\ ~Usable(Designated)) => Raised(ret)

\* No step of the cascade finds a usable template for the event's flags.
NothingResolves ==
    /\ ~Usable("ae_non_serious")
    /\ FlagIsYes("serious_event") =>
          /\ ~Usable("sae_generic")
          /\ ~Usable("sae_hospitalization")
          /\ ~FlagIsYes("hospitalization") => ~Usable("sae_medically_important")

\* C6: select_template returns one configured, non-empty template, or, when
\* nothing resolves, raises ValueError naming the three flag values and the
\* available template keys; it never returns None or an empty template.
C6_OneTemplateOrConfigurationError ==
    Selected =>
        IF NothingResolves
        THEN /\ Raised(ret)
             /\ ret.exc = "ValueError"
             /\ ret.msg.serious = FlagShown("serious_event")
             /\ ret.msg.hospitalization = FlagShown("hospitalization")
             /\ ret.msg.medically_important = FlagShown("other_medically_important")
             /\ ret.msg.available = DOMAIN templates
        ELSE /\ Returned(ret)
             /\ ret.value # None
             /\ ret.value # EmptyDict
             /\ \E key \in DOMAIN templates : ret.value = templates[key]

C6_Witness ==
    /\ Selected
    /\ Raised(ret)
    /\ DOMAIN templates = {"sae_medically_important", "ae_non_serious"}
    /\ templates["ae_non_serious"] = EmptyDict
    /\ Get(call.event_data, "serious_event") = PyStr("Y")
    /\ Get(call.event_data, "hospitalization") = PyStr("y")

---------------------------------------------------------------------------
(* Template filling as a state machine: Init draws a template text and a   *)
(* field mapping, the action applies fill_template.                        *)

\* Template texts: named placeholders, an escaped brace, a placeholder no
\* field mapping binds, and malformed braces.
FillTexts ==
    {"{age}-YEARS-old {sex}",
     "until {end_date}.",
     "{sex} {{x}} {age}",
     "{dose} for {sex}",
     "{age",
     "{} {age}",
     "age}"}

AgeChoices == {[t |-> "absent"], None, PyInt(74), PyInt(0)}
SexChoices ==
    {[t |-> "absent"], None, PyStr(""), PyStr("nan"), PyStr("NaN"), PyStr("NAN"),
     PyStr("MALE")}
EndDateChoices == {[t |-> "absent"], None, PyStr(""), PyStr("25-Jan-2024")}

FillFieldValues ==
    { [name \in {n \in {"age", "sex", "end_date"} :
                    (CASE n = "age" -> a [] n = "sex" -> x [] OTHER -> e).t # "absent"} |->
          CASE name = "age" -> a [] name = "sex" -> x [] OTHER -> e]
      : a \in AgeChoices, x \in SexChoices, e \in EndDateChoices }

InitFill ==
    /\ templates = EmptyDict
    /\ enhancer = None
    /\ subjects = EmptyDict
    /\ adverse_events = EmptyDict
    /\ treatment_exposure = EmptyDict
    /\ narratives = << >>
    /\ clock = 0
    /\ call \in {[op |-> "fill_template", template_text |-> text, field_values |-> fv]
                  : text \in FillTexts, fv \in FillFieldValues}
    /\ ret = Pending
    /\ enhance_calls = << >>
    /\ documents = << >>
    /\ connections = << >>

FillTemplate ==
    /\ call.op = "fill_template"
    /\ ret = Pending
    /\ ret' = fill_template(call.template_text, call.field_values)
    /\ UNCHANGED <<templates, enhancer, subjects, adverse_events, treatment_exposure,
                   narratives, clock, call, enhance_calls, documents, connections>>

NextFill == FillTemplate

FillSpec == InitFill /\ [][NextFill]_vars

---------------------------------------------------------------------------
(* Claims about template filling.  What a template text consists of is     *)
(* written out here by hand, apart from the model's parser.                *)

Lit(text) == [kind |-> "literal", text |-> text]
Field(name) == [kind |-> "field", name |-> name]

\* The literal pieces and placeholders of each well-formed template text.
PartsOf(text) ==
    CASE text = "{age}-YEARS-old {sex}" -> <<Field("age"), Lit("-YEARS-old "), Field("sex")>>
      [] text = "until {end_date}." -> <<Lit("until "), Field("end_date"), Lit(".")>>
      [] text = "{sex} {{x}} {age}" -> <<Field("sex"), Lit(" {x} "), Field("age")>>
      [] text = "{dose} for {sex}" -> <<Field("dose"), Lit(" for "), Field("sex")>>
      [] OTHER -> << >>

WellFormed(text) == PartsOf(text) # << >>

PlaceholdersOf(text) ==
    {PartsOf(text)[i].name : i \in {j \in 1..Len(PartsOf(text)) : PartsOf(text)[j].kind = "field"}}

\* The text a present value is shown as.
ShownAs(value) ==
    CASE value = PyInt(74) -> "74"
      [] value = PyInt(0) -> "0"
      [] OTHER -> value.v

\* How the claim renders one placeholder.
Rendered(value) ==
    IF value \in {None, PyStr(""), PyStr("nan"), PyStr("NaN")}
    THEN "[NOT AVAILABLE]"
    ELSE ShownAs(value)

RECURSIVE ExpectedText(_, _)
ExpectedText(parts, field_values) ==
    IF parts = << >> THEN ""
    ELSE (IF Head(parts).kind = "literal"
          THEN Head(parts).text
          ELSE Rendered(field_values[Head(parts).name]))
         \o ExpectedText(Tail(parts), field_values)

Filled == call.op = "fill_template" /\ ret # Pending

\* C7: a placeholder with no entry at all in the field mapping makes
\* fill_template raise an error naming the missing field and the available
\* fields; no text is returned.
C7_UnboundPlaceholderRaises ==
    (Filled /\ WellFormed(call.template_text)
        /\ \E name \in PlaceholdersOf(call.template_text) :
              name \notin DOMAIN call.field_values)
    => /\ Raised(ret)
       /\ ret.msg.field \in PlaceholdersOf(call.template_text) \ DOMAIN call.field_values
       /\ ret.msg.available = DOMAIN call.field_values

\* C8: when every placeholder has an entry, fill_template returns the
\* template with each placeholder replaced by "[NOT AVAILABLE]" if its value
\* is None, "", "nan" or "NaN" and by the value's text otherwise.
C8_MissingValuesRenderedAsMarker ==
    (Filled /\ WellFormed(call.template_text)
        /\ PlaceholdersOf(call.template_text) \subseteq DOMAIN call.field_values)
    => ret = Return(ExpectedText(PartsOf(call.template_text), call.field_values))

C8_Witness ==
    /\ Filled
    /\ call.template_text = "{age}-YEARS-old {sex}"
    /\ call.field_values = [age |-> PyInt(74), sex |-> PyStr("NaN"), end_date |-> None]
    /\ ret = Return("74-YEARS-old [NOT AVAILABLE]")

---------------------------------------------------------------------------
(* The narrative pipeline as a state machine: Init draws the template      *)
(* configuration, the enhancer and the database content; the actions are   *)
(* generate_narrative requests and save_to_database appends.               *)

MaxNarratives == 1

Paragraph(number, template) == [number |-> number, template |-> template]

\* configs/narrative_templates.json; paragraphs are listed out of order.
FullTemplates ==
    [sae_hospitalization |->
        [template_id |-> TemplateId("sae_hospitalization"),
         paragraphs |->
            << [number |-> 2,
                template |-> "SAE of {preferred_term}, {start_date}.",
                variations |-> [with_end_date |-> "To {end_date}.",
                                without_end_date |-> "Ongoing."]],
               Paragraph(1, "{age}-YEARS-old {sex}; last dose {last_dose_date}."),
               Paragraph(3, "Action taken with study drug was {action_taken}.") >>],
     sae_medically_important |->
        [template_id |-> TemplateId("sae_medically_important"),
         paragraphs |->
            << [number |-> 1,
                template |-> "SAE of {preferred_term}, {start_date}.",
                variations |-> [with_end_date |-> "To {end_date}."]],
               Paragraph(2, "Action taken with study drug was {action_taken}.") >>],
     sae_generic |->
        [template_id |-> TemplateId("sae_generic"),
         paragraphs |->
            << Paragraph(2, "Ongoing."),
               Paragraph(1, "SAE of {preferred_term}."),
               Paragraph(1, "{sex}.") >>],
     ae_non_serious |->
        [template_id |-> TemplateId("ae_non_serious"),
         paragraphs |->
            << Paragraph(1, "AE of {preferred_term}, {start_date}.") >>]]

Restrict(f, keys) == [key \in keys |-> f[key]]

\* The complete configuration, and two that lack entries.
PipelineConfigs ==
    {FullTemplates,
     Restrict(FullTemplates, {"sae_generic", "ae_non_serious"}),
     Restrict(FullTemplates, {"sae_hospitalization"})}

SubjectIds == {"S1"}
SequenceNumbers == {1, 2}

SubjectRows ==
    {[age |-> PyInt(74), sex |-> PyStr("MALE")],
     [age |-> None, sex |-> PyStr("nan")]}

TreatmentRows == {[last_dose_date |-> PyStr("2024-01-15")]}

EventRow(serious, hosp, med_imp, term, start, end, action) ==
    [serious_event |-> serious, hospitalization |-> hosp,
     other_medically_important |-> med_imp, preferred_term |-> term,
     start_date |-> start, end_date |-> end, action_taken |-> action,
     treatment_emergent |-> PyStr("Y")]

EventRows ==
    {EventRow(PyStr("Y"), PyStr("Y"), PyStr("N"), PyStr("GI BLEED"),
              PyStr("2024-01-22"), PyStr("2024-01-25"), PyStr("DOSE NOT CHANGED")),
     EventRow(PyStr("Y"), PyStr("N"), PyStr("Y"), PyStr("ALT INCREASED"),
              PyStr("2024-02-30"), None, PyStr("NaN")),
     EventRow(None, None, None, PyStr(""), None, PyStr(""), None),
     EventRow(PyStr("y"), PyStr("N"), PyStr("N"), PyStr("RASH"),
              PyStr("None"), PyStr("nan"), PyStr("NAN"))}

\* A table with at most one row under the given key.
OneRowTables(key, rows) == {EmptyDict} \cup {[k \in {key} |-> row] : row \in rows}

Init ==
    /\ templates \in PipelineConfigs
    /\ enhancer \in {None, OpenAIEnhancer, OtherEnhancer}
    /\ subjects \in OneRowTables("S1", SubjectRows)
    /\ adverse_events \in OneRowTables(<<"S1", 1>>, EventRows)
    /\ treatment_exposure \in OneRowTables("S1", TreatmentRows)
    /\ narratives = << >>
    /\ clock = 0
    /\ call = NoCall
    /\ ret = Pending
    /\ enhance_calls = << >>
    /\ documents = << >>
    /\ connections = << >>

\* A request generate_narrative(subject_id, sequence_number), start to end.
\* main.py persists every returned text before it asks for the next one; a
\* request that raised ends the run, and a later run starts afresh.
GenerateNarrative ==
    /\ Len(narratives) < MaxNarratives
    /\ call.op # "generate_narrative" \/ Raised(ret)
    /\ \E subject_id \in SubjectIds, sequence_number \in SequenceNumbers,
          enh_result \in EnhancerResults(enhancer) :
          /\ call' = [op |-> "generate_narrative", subject_id |-> subject_id,
                      sequence_number |-> sequence_number, enh_result |-> enh_result]
          /\ LET Finished(run) ==
                     /\ ret' = run.outcome
                     /\ enhance_calls' = run.enhance_calls
             IN  Finished(generate_narrative_run(templates, enhancer, enh_result,
                                                 FieldConfig, subjects, adverse_events,
                                                 treatment_exposure, subject_id,
                                                 sequence_number))
    /\ UNCHANGED <<templates, enhancer, subjects, adverse_events, treatment_exposure,
                   narratives, clock, documents, connections>>

\* A log that keeps one row per event: a later save for the same
\* (subject_id, sequence_number) replaces the earlier row.
save_to_database_Overwrites(table, now, subject_id, sequence_number, narrative_text, template_id) ==
    LET same == {i \in 1..Len(table) : /\ table[i].subject_id = subject_id
                                       /\ table[i].sequence_number = sequence_number}
        row == [id |-> Len(table) + 1,
                subject_id |-> subject_id,
                sequence_number |-> sequence_number,
                narrative_text |-> narrative_text,
                generation_date |-> now,
                template_used |-> template_id]
    IN  IF same = {} THEN Append(table, row)
        ELSE [i \in 1..Len(table) |-> IF i \in same THEN row ELSE table[i]]

\* A save that records the generic template whatever it is given.
save_to_database_GenericTemplate(table, now, subject_id, sequence_number, narrative_text, template_id) ==
    Append(table,
           [id |-> Len(table) + 1,
            subject_id |-> subject_id,
            sequence_number |-> sequence_number,
            narrative_text |-> narrative_text,
            generation_date |-> now,
            template_used |-> "SAE_GENERIC_V1"])

\* A save whose INSERT is never committed: the table stays as it was.
save_to_database_NotCommitted(table, now, subject_id, sequence_number, narrative_text, template_id) ==
    table

\* NarrativeGenerator.save_to_database: one INSERT, committed on leaving
\* the connection's with block; returns last_insert_rowid().
save_to_database(table, now, subject_id, sequence_number, narrative_text, template_id) ==
    Append(table,
           [id |-> Len(table) + 1,
            subject_id |-> subject_id,
            sequence_number |-> sequence_number,
            narrative_text |-> narrative_text,
            generation_date |-> now,
            template_used |-> template_id])

\* The caller of a finished request persists its text under the template id
\* selected for the event (main.py).
SaveToDatabase ==
    /\ call.op = "generate_narrative"
    /\ Returned(ret)
    /\ Len(narratives) < MaxNarratives
    /\ LET template == select_template(
                           templates,
                           Or(get_event_data(adverse_events, call.subject_id,
                                             call.sequence_number), EmptyDict))
       IN  /\ Returned(template)
           /\ narratives' = save_to_database(narratives, clock, call.subject_id,
                                             call.sequence_number, ret.value,
                                             template.value.template_id)
           /\ call' = [op |-> "save_to_database", subject_id |-> call.subject_id,
                       sequence_number |-> call.sequence_number]
           /\ ret' = Return(Len(narratives) + 1)
    /\ clock' \in {clock, clock + 1}
    /\ UNCHANGED <<templates, enhancer, subjects, adverse_events, treatment_exposure,
                   enhance_calls, documents, connections>>

Next == GenerateNarrative \/ SaveToDatabase

Spec == Init /\ [][Next]_vars


---------------------------------------------------------------------------
(* Claims about generate_narrative                                         *)

Generated == call.op = "generate_narrative" /\ ret # Pending

\* sub occurs somewhere in text.
Contains(text, sub) == \E i \in 1..Len(text) : At(text, i, sub)

\* The word nan stands in text as a token of its own.
HasNanToken(text) == \E i \in 1..Len(text) : WordAt(text, i, "nan", FALSE)

\* The enhance call of the request failed: the collaborator raised, or its
\* answer had no choices.
CollaboratorFailed == call.enh_result.kind \in {"raises", "no_choices"}

\* What the same request returns when no enhancer is configured.
BaselineOfRequest ==
    generate_narrative(templates, None, [kind |-> "not_called"], FieldConfig,
                       subjects, adverse_events, treatment_exposure,
                       call.subject_id, call.sequence_number)

\* C9: when the enhancement collaborator fails, generate_narrative returns
\* normally and its result is exactly the baseline text it returns with no
\* enhancer configured; no exception of the collaborator reaches the caller.
C9_EnhancerFailureFallsBack ==
    (Generated /\ enhancer # None /\ CollaboratorFailed)
    => (Returned(BaselineOfRequest) => ret = BaselineOfRequest)

\* C10: no narrative returned by generate_narrative contains a brace of
\* template syntax, the string None or the token nan, whatever the event
\* data (missing rows and missing values included).
C10_NoUnresolvedText ==
    (Generated /\ Returned(ret))
    => /\ ~Contains(ret.value, "{")
       /\ ~Contains(ret.value, "None")
       /\ ~HasNanToken(ret.value)

---------------------------------------------------------------------------
(* The business rules as a state machine: Init draws a paragraph text made *)
(* of a few pieces, the action applies apply_business_rules.               *)

MaxPieces == 3

\* Pieces of filled paragraph text: the phrases and values the rules look
\* for, and characters that join them into longer words.
TextPieces ==
    {"last dose", "LAST DOSE", "b", " ", "2023-12-20", "-12-20",
     "action taken with study drug was ", "WHITE", "SAE of ", "74-YEARS-old"}

RECURSIVE Concat(_)
Concat(pieces) == IF pieces = << >> THEN "" ELSE Head(pieces) \o Concat(Tail(pieces))

RuleTexts == {Concat(pieces) : pieces \in UNION {[1..n -> TextPieces] : n \in 0..MaxPieces}}

InitRules ==
    /\ templates = EmptyDict
    /\ enhancer = None
    /\ subjects = EmptyDict
    /\ adverse_events = EmptyDict
    /\ treatment_exposure = EmptyDict
    /\ narratives = << >>
    /\ clock = 0
    /\ call \in {[op |-> "apply_business_rules", text |-> text] : text \in RuleTexts}
    /\ ret = Pending
    /\ enhance_calls = << >>
    /\ documents = << >>
    /\ connections = << >>

ApplyBusinessRules ==
    /\ call.op = "apply_business_rules"
    /\ ret = Pending
    /\ ret' = Return(apply_business_rules(call.text))
    /\ UNCHANGED <<templates, enhancer, subjects, adverse_events, treatment_exposure,
                   narratives, clock, call, enhance_calls, documents, connections>>

NextRules == ApplyBusinessRules

RulesSpec == InitRules /\ [][NextRules]_vars

---------------------------------------------------------------------------
(* Claims about the business rules                                         *)

RulesApplied == call.op = "apply_business_rules" /\ ret # Pending

\* C11: apply_business_rules is idempotent: applied to its own output it
\* returns that output unchanged.
C11_BusinessRulesIdempotent ==
    RulesApplied => apply_business_rules(ret.value) = ret.value

\* sub occurs somewhere in text, letter case ignored.
ContainsIgnoreCase(text, sub) ==
    \E i \in 1..(Len(text) - Len(sub) + 1) :
        Lower(SubSeq(text, i, i + Len(sub) - 1)) = Lower(sub)

\* The phrase stands at position i of text as words of its own, in any
\* letter case: no letter, digit or underscore touches it on either side.
PhraseAt(text, i, phrase) ==
    /\ i + Len(phrase) - 1 <= Len(text)
    /\ Lower(SubSeq(text, i, i + Len(phrase) - 1)) = Lower(phrase)
    /\ i = 1 \/ ~IsWordChar(Char(text, i - 1))
    /\ i + Len(phrase) > Len(text) \/ ~IsWordChar(Char(text, i + Len(phrase)))

PhraseCount(text, phrase) == Cardinality({i \in 1..Len(text) : PhraseAt(text, i, phrase)})

\* C12 as stated: the output of apply_business_rules contains "last dose"
\* nowhere as a substring, in any letter case.
C12_NoLastDoseSubstring ==
    RulesApplied => ~ContainsIgnoreCase(ret.value, "last dose")

\* C12 amended: the output contains "last dose" nowhere as a phrase of its
\* own (in any letter case), and every such phrase of the input has become
\* "most recent dose"; "last dose" inside a longer word is left as it is.
C12_NoLastDosePhrase ==
    RulesApplied
    => /\ PhraseCount(ret.value, "last dose") = 0
       /\ PhraseCount(ret.value, "most recent dose")
              = PhraseCount(call.text, "last dose") + PhraseCount(call.text, "most recent dose")

C12_Witness ==
    /\ RulesApplied
    /\ call.text = "LAST DOSE last dose"
    /\ ret.value = "most recent dose most recent dose"

\* The positions of text where an ISO date stands as a token of its own.
IsoDatesOf(text) == {i \in 1..Len(text) : IsoDateAt(text, i)}

\* How often sub occurs in text, letter case observed.
Occurrences(text, sub) == Cardinality({j \in 1..Len(text) : At(text, j, sub)})

\* C23: after apply_business_rules every valid ISO date of the input stands
\* in the output as DD-Mon-YYYY with the month written as rule 2 writes it
\* (20-Dec-2023), as often as it stood in the input, also inside the clause
\* after "action taken with study drug was " or "assessed the event as ";
\* a date that does not parse stays as it was; no later rule alters what
\* rule 2 wrote.
C23_DatesKeepRuleTwoForm ==
    RulesApplied
    => \A i \in IsoDatesOf(call.text) :
          LET Kept(raw) ==
                  Occurrences(ret.value, date_repl(raw))
                      >= Cardinality({k \in IsoDatesOf(call.text) :
                                         SubSeq(call.text, k, k + 9) = raw})
          IN  Kept(SubSeq(call.text, i, i + 9))

---------------------------------------------------------------------------
(* Claims about the assembled narrative                                    *)

\* A request returned with no enhancer configured: ret is the baseline.
BaselineReturned == Generated /\ Returned(ret) /\ enhancer = None

RequestFields ==
    map_all_fields(FieldConfig, subjects, adverse_events, treatment_exposure,
                   call.subject_id, call.sequence_number)

RequestTemplate ==
    select_template(templates,
                    Or(get_event_data(adverse_events, call.subject_id,
                                      call.sequence_number),
                       EmptyDict)).value

\* The order in which a paragraph list is to appear: position k of the
\* narrative holds paragraph NumberOrder[k]; numbers ascend, and of two
\* paragraphs with the same number the one configured first comes first.
NumberOrder(paragraphs) ==
    CHOOSE order \in [1..Len(paragraphs) -> 1..Len(paragraphs)] :
        /\ \A a, b \in 1..Len(paragraphs) : a # b => order[a] # order[b]
        /\ \A a, b \in 1..Len(paragraphs) :
               a < b => \/ paragraphs[order[a]].number < paragraphs[order[b]].number
                        \/ /\ paragraphs[order[a]].number = paragraphs[order[b]].number
                           /\ order[a] < order[b]

RECURSIVE WithBlankLines(_, _)
\* texts[k], texts[k+1], ... with one blank line between neighbours.
WithBlankLines(texts, k) ==
    IF k > Len(texts) THEN ""
    ELSE IF k = Len(texts) THEN texts[k]
    ELSE texts[k] \o "\n\n" \o WithBlankLines(texts, k + 1)

ExpectedParagraphs(paragraphs, field_values) ==
    [k \in 1..Len(paragraphs) |->
        generate_paragraph(paragraphs[NumberOrder(paragraphs)[k]], field_values).value]

SeparatorCount(text) == Cardinality({i \in 1..Len(text) : At(text, i, "\n\n")})

\* C13: the baseline narrative is the selected template's paragraphs in
\* ascending order of their number (equal numbers in configuration order),
\* each filled and run through the business rules, joined by exactly two
\* newlines: n paragraphs give n-1 separators, none leading or trailing.
C13_ParagraphsInNumberOrder ==
    BaselineReturned
    => /\ ret.value = WithBlankLines(ExpectedParagraphs(RequestTemplate.paragraphs,
                                                        RequestFields), 1)
       /\ SeparatorCount(ret.value) = Len(RequestTemplate.paragraphs) - 1
       /\ ~At(ret.value, 1, "\n")
       /\ ~At(ret.value, Len(ret.value), "\n")

\* Paragraphs configured as 2, 1, 1 come out as the two 1s in configuration
\* order and then the 2.
C13_Witness ==
    /\ BaselineReturned
    /\ RequestTemplate.template_id = TemplateId("sae_generic")
    /\ ret.value = "SAE of gI BLEED.\n\nmale.\n\nOngoing."

\* C14: with an enhancer configured, a request whose baseline is assembled
\* makes exactly one enhance call, with the resolved field mapping, the
\* selected template's id and the baseline text, and its outcome is what
\* the enhancer answered; a request that fails before the baseline is
\* assembled, or runs without an enhancer, makes no call, and without an
\* enhancer the baseline is returned.
C14_EnhancerCalledOnceWithBaseline ==
    LET Holds(baseline) ==
            IF enhancer = None \/ Raised(baseline)
            THEN enhance_calls = << >> /\ ret = baseline
            ELSE /\ Len(enhance_calls) = 1
                 /\ enhance_calls[1].field_values = RequestFields
                 /\ enhance_calls[1].template_id = RequestTemplate.template_id
                 /\ enhance_calls[1].baseline_text = baseline.value
                 /\ ret = enhance_calls[1].outcome
                 /\ (enhancer = OtherEnhancer /\ call.enh_result.kind = "appends")
                        => ret = Return(baseline.value \o call.enh_result.text)
    IN  Generated => Holds(BaselineOfRequest)

C14_Witness ==
    /\ Generated
    /\ enhancer = OtherEnhancer
    /\ Len(enhance_calls) = 1
    /\ enhance_calls[1].template_id = TemplateId("sae_hospitalization")
    /\ ret = Return(enhance_calls[1].baseline_text \o "\n\n[Enhanced by OpenAI]")

\* C26: generation is read-only: a generate_narrative request, with its
\* select_template, generate_paragraph and map_all_fields, leaves the
\* template configuration and the four relations unchanged, whether it
\* returns or raises; only save_to_database changes the data store, and only
\* by appending one row to narratives.
C26_GenerationIsReadOnly ==
    [][/\ templates' = templates
       /\ subjects' = subjects
       /\ adverse_events' = adverse_events
       /\ treatment_exposure' = treatment_exposure
       /\ call'.op = "generate_narrative" => narratives' = narratives
       /\ call'.op = "save_to_database"
             => /\ Len(narratives') = Len(narratives) + 1
                /\ SubSeq(narratives', 1, Len(narratives)) = narratives]_vars

C26_Witness ==
    /\ call.op = "save_to_database"
    /\ Len(narratives) = 1
    /\ enhance_calls # << >>
    /\ adverse_events # EmptyDict
    /\ subjects # EmptyDict

\* The request's text has been persisted.
RowSaved == call.op = "save_to_database" /\ narratives # << >>

ConfiguredIds == {templates[key].template_id : key \in DOMAIN templates}

TemplateOfId(template_id) ==
    CHOOSE template \in {templates[key] : key \in DOMAIN templates} :
        template.template_id = template_id

\* C27: the row written after a request records as template_used the id of
\* the template generate_narrative used for the row's text: the baseline
\* (the stored text, or the text handed to the enhancer together with that
\* id) is the text of that template's paragraphs, although the template is
\* selected again from a second read of the event.
C27_TemplateUsedIsTemplateOfText ==
    RowSaved
    => LET row == narratives[Len(narratives)]
           Holds(template, field_values) ==
               LET Baseline(text) ==
                       IF enhance_calls = << >>
                       THEN row.narrative_text = text
                       ELSE /\ enhance_calls[1].template_id = row.template_used
                            /\ enhance_calls[1].baseline_text = text
               IN  Baseline(WithBlankLines(ExpectedParagraphs(template.paragraphs,
                                                              field_values), 1))
       IN  /\ row.template_used \in ConfiguredIds
           /\ Holds(TemplateOfId(row.template_used), RequestFields)

C27_Witness ==
    /\ RowSaved
    /\ enhance_calls # << >>
    /\ narratives[1].template_used = "SAE_HOSP_V1"
    /\ enhance_calls[1].template_id = "SAE_HOSP_V1"

\* C28: every row of narratives refers to a (subject_id, sequence_number)
\* that exists in adverse_events, also after requests for a subject or a
\* sequence number that does not exist.
C28_NarrativesReferToEvents ==
    \A i \in 1..Len(narratives) :
        <<narratives[i].subject_id, narratives[i].sequence_number>>
            \in DOMAIN adverse_events

---------------------------------------------------------------------------
(* The narratives log on its own: save_to_database called directly with   *)
(* arguments of the caller's choice.                                       *)

MaxSaves == 3

SavedSubjects == {"01-001", "01-002"}
SavedTexts == {"Ongoing.", "SAE of rASH."}

InitLog ==
    /\ templates = EmptyDict
    /\ enhancer = None
    /\ subjects = EmptyDict
    /\ adverse_events = EmptyDict
    /\ treatment_exposure = EmptyDict
    /\ narratives = << >>
    /\ clock = 0
    /\ call = [op |-> "connect"]
    /\ ret = Pending
    /\ enhance_calls = << >>
    /\ documents = << >>
    /\ connections = << >>

SaveNarrative ==
    /\ Len(narratives) < MaxSaves
    /\ \E subject_id \in SavedSubjects, narrative_text \in SavedTexts :
          /\ narratives' = save_to_database(narratives, clock, subject_id, 1,
                                            narrative_text, TemplateId("sae_generic"))
          /\ call' = [op |-> "save_to_database", subject_id |-> subject_id,
                      sequence_number |-> 1, narrative_text |-> narrative_text,
                      template_id |-> TemplateId("sae_generic")]
    /\ ret' = Return(narratives'[Len(narratives')].id)
    /\ clock' \in {clock, clock + 1}
    /\ UNCHANGED <<templates, enhancer, subjects, adverse_events, treatment_exposure,
                   enhance_calls, documents, connections>>

NextLog == SaveNarrative

LogSpec == InitLog /\ [][NextLog]_vars

---------------------------------------------------------------------------
(* Claims about the narratives log                                         *)

\* The rows of the log stored for one event.
RowsOf(table, subject_id, sequence_number) ==
    {i \in 1..Len(table) : /\ table[i].subject_id = subject_id
                           /\ table[i].sequence_number = sequence_number}

\* C15: the narratives log is append-only: every save adds exactly one row
\* with an id no earlier row has, holding the subject, the sequence number,
\* the text, the time of the call and the template id it was given, returns
\* that id, and leaves every earlier row as it was; so k saves for one event
\* leave k rows for it.
C15_NarrativesAppendOnly ==
    [][ /\ Len(narratives') = Len(narratives) + 1
        /\ SubSeq(narratives', 1, Len(narratives)) = narratives
        /\ LET row == narratives'[Len(narratives')]
           IN  /\ \A i \in 1..Len(narratives) : narratives[i].id # row.id
               /\ row.subject_id = call'.subject_id
               /\ row.sequence_number = call'.sequence_number
               /\ row.narrative_text = call'.narrative_text
               /\ row.generation_date = clock
               /\ row.template_used = call'.template_id
               /\ ret' = Return(row.id)
               /\ Cardinality(RowsOf(narratives', row.subject_id, row.sequence_number))
                    = Cardinality(RowsOf(narratives, row.subject_id, row.sequence_number)) + 1
      ]_vars

C15_Witness ==
    /\ call.op = "save_to_database"
    /\ Len(narratives) = 3
    /\ RowsOf(narratives, "01-001", 1) = {1, 2, 3}
    /\ narratives[1].narrative_text = "Ongoing."
    /\ narratives[2].narrative_text = "SAE of rASH."
    /\ narratives[3].narrative_text = "Ongoing."
    /\ ret = Return(3)

---------------------------------------------------------------------------
(* The field mapper as a state machine: Init draws one call of             *)
(* apply_value_mapping, format_field or map_all_fields with its arguments  *)
(* and database content, the action runs it.                               *)

\* Raw column values: absent, text in several letter cases, empty text and
\* a number.
MappedValues ==
    {None, PyStr("MALE"), PyStr("male"), PyStr("Male"), PyStr("M"), PyStr("m"),
     PyStr("N"), PyStr("n"), PyStr("OTHER"), PyStr(""), PyInt(1)}

\* Field configurations: without a value_map, with an empty one, the sex
\* table, a table keyed in lower case, one keyed in both cases, one keyed by
\* a number's text and one that rewrites a code to the empty text.
MappingConfigs ==
    {[name |-> "sex"],
     [name |-> "sex", value_map |-> EmptyDict],
     [name |-> "sex",
      value_map |-> [M |-> PyStr("male"), F |-> PyStr("female"),
                     MALE |-> PyStr("male"), FEMALE |-> PyStr("female")]],
     [name |-> "sex", value_map |-> [m |-> PyStr("man")]],
     [name |-> "sex", value_map |-> [M |-> PyStr("male"), m |-> PyStr("man")]],
     [name |-> "sex", value_map |-> [k \in {"1"} |-> PyStr("one")]],
     [name |-> "sex", value_map |-> [N |-> PyStr("")]]}

\* Date column values: ISO dates, ISO dates written loosely, dates in the
\* target form in several spellings, impossible dates, other text, a number.
DateValues ==
    {None, PyInt(20231220),
     PyStr("2023-12-20"), PyStr("2024-02-29"), PyStr("0999-01-01"),
     PyStr("2023-1-5"), PyStr("2023-01- 5"),
     PyStr("20-Dec-2023"), PyStr("5-jan-2024"), PyStr(" 5-JAN-2024"),
     PyStr("2023-02-30"), PyStr("2023-13-01"), PyStr("31-Apr-2023"),
     PyStr("20/12/2023"), PyStr("2023-12-20 "), PyStr("2023-12-20T00:00:00"),
     PyStr("")}

FormatConfigs ==
    {[name |-> "start_date", format |-> PyStr("date")],
     [name |-> "start_date"],
     [name |-> "start_date", format |-> PyStr("upper")]}

InitField ==
    /\ templates = EmptyDict
    /\ enhancer = None
    /\ narratives = << >>
    /\ clock = 0
    /\ ret = Pending
    /\ enhance_calls = << >>
    /\ documents = << >>
    /\ connections = << >>
    /\ \/ /\ subjects = EmptyDict
          /\ adverse_events = EmptyDict
          /\ treatment_exposure = EmptyDict
          /\ call \in
                {[op |-> "apply_value_mapping", value |-> value, config |-> config]
                   : value \in MappedValues, config \in MappingConfigs}
                \cup
                {[op |-> "format_field", value |-> value, config |-> config]
                   : value \in DateValues, config \in FormatConfigs}
       \/ /\ subjects \in OneRowTables("S1", SubjectRows)
          /\ adverse_events \in OneRowTables(<<"S1", 1>>, EventRows)
          /\ treatment_exposure \in OneRowTables("S1", TreatmentRows)
          /\ call \in
                {[op |-> "map_all_fields", subject_id |-> subject_id,
                  sequence_number |-> sequence_number]
                   : subject_id \in SubjectIds, sequence_number \in SequenceNumbers}

ApplyValueMapping ==
    /\ call.op = "apply_value_mapping"
    /\ ret = Pending
    /\ ret' = Return(apply_value_mapping(call.config.name, call.value, call.config))
    /\ UNCHANGED <<templates, enhancer, subjects, adverse_events, treatment_exposure,
                   narratives, clock, call, enhance_calls, documents, connections>>

FormatField ==
    /\ call.op = "format_field"
    /\ ret = Pending
    /\ ret' = Return(format_field(call.config.name, call.value, call.config))
    /\ UNCHANGED <<templates, enhancer, subjects, adverse_events, treatment_exposure,
                   narratives, clock, call, enhance_calls, documents, connections>>

MapAllFields ==
    /\ call.op = "map_all_fields"
    /\ ret = Pending
    /\ ret' = Return(map_all_fields(FieldConfig, subjects, adverse_events,
                                    treatment_exposure, call.subject_id,
                                    call.sequence_number))
    /\ UNCHANGED <<templates, enhancer, subjects, adverse_events, treatment_exposure,
                   narratives, clock, call, enhance_calls, documents, connections>>

NextField == ApplyValueMapping \/ FormatField \/ MapAllFields

FieldSpec == InitField /\ [][NextField]_vars

---------------------------------------------------------------------------
(* Claims about the field mapper                                           *)

ValueMapped == call.op = "apply_value_mapping" /\ ret # Pending

\* C16: apply_value_mapping looks the raw value up by its upper-cased
\* string form and then by the raw value itself, returns the mapped value
\* when either lookup hits, and returns the raw value when it is None, the
\* field has no value_map, or neither lookup hits.
C16_MappedWhenEitherLookupHits ==
    ValueMapped =>
        LET value == call.value
            value_map == IF "value_map" \in DOMAIN call.config
                         THEN call.config.value_map ELSE EmptyDict
            upper_key == Upper(PyFormat(value))
        IN  ret.value =
                IF value = None THEN value
                ELSE IF upper_key \in DOMAIN value_map THEN value_map[upper_key]
                ELSE IF value.t = "str" /\ value.v \in DOMAIN value_map
                THEN value_map[value.v]
                ELSE value

Formatted == call.op = "format_field" /\ ret # Pending

DateFormatter == Get(call.config, "format") = PyStr("date")

\* s is a date written YYYY-MM-DD: four, two and two digits, a real day.
IsIsoDate(s) ==
    /\ Len(s) = 10
    /\ AllDigits(SubSeq(s, 1, 4)) /\ AllDigits(SubSeq(s, 6, 7)) /\ AllDigits(SubSeq(s, 9, 10))
    /\ Char(s, 5) = "-" /\ Char(s, 8) = "-"
    /\ ValidDate(StrToNat(SubSeq(s, 1, 4)), StrToNat(SubSeq(s, 6, 7)),
                 StrToNat(SubSeq(s, 9, 10)))

\* DD-Mon-YYYY of the ISO date s.
DdMonYyyy(s) ==
    SubSeq(s, 9, 10) \o "-" \o MonthAbbr[StrToNat(SubSeq(s, 6, 7))] \o "-" \o SubSeq(s, 1, 4)

DayMonthYear(date) ==
    (IF date.day < 10 THEN "0" ELSE "") \o NatToStr(date.day) \o "-"
    \o MonthAbbr[date.month] \o "-" \o NatToStr(date.year)

FieldsMapped == call.op = "map_all_fields" /\ ret # Pending

\* The table a configured field reads, and the key of the requested row.
SourceTable(field) ==
    CASE field.db_table = "subjects" -> subjects
      [] field.db_table = "adverse_events" -> adverse_events
      [] OTHER -> treatment_exposure

SourceKey(field) ==
    IF field.db_table = "adverse_events"
    THEN <<call.subject_id, call.sequence_number>>
    ELSE call.subject_id

\* C18: map_all_fields returns, whichever of the Subject, AdverseEvent and
\* TreatmentExposure rows are missing, a mapping whose keys are exactly the
\* configured field names; a field whose source row is absent is None and a
\* field whose source row is present is its mapped and formatted column
\* value.
C18_MissingRowsResolveToNone ==
    FieldsMapped =>
        /\ Returned(ret)
        /\ DOMAIN ret.value = {FieldConfig[i].name : i \in 1..Len(FieldConfig)}
        /\ \A i \in 1..Len(FieldConfig) :
              LET Resolved(field, table, key) ==
                      ret.value[field.name] =
                          IF key \notin DOMAIN table THEN None
                          ELSE format_field(
                                   field.name,
                                   apply_value_mapping(field.name,
                                                       table[key][field.db_column],
                                                       field),
                                   field)
              IN  Resolved(FieldConfig[i], SourceTable(FieldConfig[i]),
                           SourceKey(FieldConfig[i]))

C18_Witness ==
    /\ FieldsMapped
    /\ call.sequence_number = 2
    /\ subjects # EmptyDict
    /\ adverse_events # EmptyDict
    /\ treatment_exposure = EmptyDict
    /\ ret.value["sex"] = PyStr("male")
    /\ ret.value["age"] = PyInt(74)
    /\ ret.value["preferred_term"] = None
    /\ ret.value["start_date"] = None
    /\ ret.value["last_dose_date"] = None

---------------------------------------------------------------------------
(* main.generate_all_saes: the batch over the selected adverse events,     *)
(* one loop iteration per step.                                            *)

\* The characters of identifiers in the order of their code points.
CodePointOrder == "-0123456789ABCDEFGHIJKLMNOPQRSTUVWXYZ_abcdefghijklmnopqrstuvwxyz"

CodePoint(c) == Min({n \in 1..Len(CodePointOrder) : Char(CodePointOrder, n) = c})

\* a < b for TEXT values under SQLite's BINARY collation.
TextLess(a, b) ==
    LET differ == {i \in 1..Len(a) : i <= Len(b) /\ Char(a, i) # Char(b, i)}
        At1(i) == CodePoint(Char(a, i)) < CodePoint(Char(b, i))
    IN  IF differ = {} THEN Len(a) < Len(b) ELSE At1(Min(differ))

\* ORDER BY subject_id, sequence_number
KeyBefore(a, b) == TextLess(a[1], b[1]) \/ (a[1] = b[1] /\ a[2] <= b[2])

RECURSIVE OrderBy(_)
OrderBy(keys) ==
    IF keys = {} THEN << >>
    ELSE LET first == CHOOSE k \in keys : \A j \in keys : KeyBefore(k, j)
         IN  <<first>> \o OrderBy(keys \ {first})

\* main._fetch_sae_events: the keys of the treatment-emergent events, the
\* serious ones only unless include_non_serious, in key order.  SQL's = on
\* TEXT is case-sensitive and never true of NULL.
fetch_sae_events(event_table, include_non_serious) ==
    OrderBy({key \in DOMAIN event_table :
                /\ event_table[key].treatment_emergent = PyStr("Y")
                /\ include_non_serious \/ event_table[key].serious_event = PyStr("Y")})

\* DocumentGenerator.create_narrative_document: one file written at
\* doc_path, holding the narrative of one event.
create_narrative_document(files, narrative_text, subject_id, sequence_number, doc_path) ==
    Append(files, [path |-> doc_path, narrative_text |-> narrative_text,
                   subject_id |-> subject_id, sequence_number |-> sequence_number])

\* DocumentGenerator.create_batch_document: one file for the whole run.
create_batch_document(files, narratives_list, batch_path) ==
    Append(files, [path |-> batch_path, narratives |-> narratives_list])

\* output_dir / f"{timestamp}_narrative_{subject_id}_{sequence_number}.docx",
\* the directory and the day stamp left out.
DocPath(subject_id, sequence_number) ==
    "narrative_" \o subject_id \o "_" \o NatToStr(sequence_number) \o ".docx"

BatchSubjects == {"S1", "S2"}

BatchKeys == {<<"S1", 1>>, <<"S1", 2>>, <<"S2", 1>>}

\* Rows of the batch: a hospitalised SAE, the same event not treatment
\* emergent, a serious flag in lower case, and a non-serious event.
BatchEventRows ==
    {EventRow(PyStr("Y"), PyStr("Y"), PyStr("N"), PyStr("GI BLEED"),
              PyStr("2024-01-22"), PyStr("2024-01-25"), PyStr("DOSE NOT CHANGED")),
     [EventRow(PyStr("Y"), PyStr("Y"), PyStr("N"), PyStr("GI BLEED"),
               PyStr("2024-01-22"), PyStr("2024-01-25"), PyStr("DOSE NOT CHANGED"))
        EXCEPT !.treatment_emergent = PyStr("N")],
     EventRow(PyStr("y"), PyStr("N"), PyStr("N"), PyStr("RASH"),
              PyStr("2024-01-22"), None, None),
     EventRow(PyStr("N"), PyStr("N"), PyStr("N"), PyStr("RASH"),
              PyStr("2024-01-22"), None, None)}

BatchEventTables ==
    UNION {[keys -> BatchEventRows] : keys \in SUBSET BatchKeys}

InitBatch ==
    /\ templates = FullTemplates
    /\ enhancer \in {None, OpenAIEnhancer, OtherEnhancer}
    /\ subjects = [subject_id \in BatchSubjects |->
                      [age |-> PyInt(74), sex |-> PyStr("MALE")]]
    /\ adverse_events \in BatchEventTables
    /\ treatment_exposure = EmptyDict
    /\ narratives = << >>
    /\ clock = 0
    /\ call = NoCall
    /\ ret = Pending
    /\ enhance_calls = << >>
    /\ documents = << >>
    /\ connections = << >>

\* generate_all_saes up to its loop: the events are fetched once.
StartBatch ==
    /\ call = NoCall
    /\ \E include_non_serious \in BOOLEAN :
          call' = [op |-> "generate_all_saes",
                   include_non_serious |-> include_non_serious,
                   sae_events |-> fetch_sae_events(adverse_events, include_non_serious),
                   idx |-> 0,
                   narratives_list |-> << >>]
    /\ UNCHANGED <<templates, enhancer, subjects, adverse_events, treatment_exposure,
                   narratives, clock, ret, enhance_calls, documents, connections>>

\* One iteration of the loop: generate, select the template again, save,
\* write the event's document, remember the narrative.  Nothing catches an
\* exception: it ends generate_all_saes.  The INSERT may fail (sqlite3.Error)
\* and so may the writing of the document (OSError), after the row is
\* committed.  Time passes between iterations.
BatchEvent ==
    /\ call.op = "generate_all_saes"
    /\ ret = Pending
    /\ call.idx < Len(call.sae_events)
    /\ \E enh_result \in EnhancerResults(enhancer) :
          LET subject_id == call.sae_events[call.idx + 1][1]
              sequence_number == call.sae_events[call.idx + 1][2]
              Stored(narrative, template) ==
                \E io_result \in {"written", "save_raises", "export_raises"} :
                  IF io_result = "save_raises"
                  THEN /\ ret' = Raise("OperationalError", "disk I/O error")
                       /\ UNCHANGED <<narratives, documents, call>>
                  ELSE /\ narratives' = save_to_database(narratives, clock, subject_id,
                                                         sequence_number, narrative,
                                                         template.template_id)
                       /\ IF io_result = "export_raises"
                          THEN /\ ret' = Raise("OSError", "cannot write document")
                               /\ UNCHANGED <<documents, call>>
                          ELSE /\ documents' = create_narrative_document(
                                                   documents, narrative, subject_id,
                                                   sequence_number,
                                                   DocPath(subject_id, sequence_number))
                               /\ call' = [call EXCEPT
                                             !.idx = @ + 1,
                                             !.narratives_list =
                                                 Append(@, [subject_id |-> subject_id,
                                                            sequence_number |-> sequence_number,
                                                            narrative_text |-> narrative])]
                               /\ ret' = ret
              Failed(exc) ==
                  /\ ret' = exc
                  /\ UNCHANGED <<narratives, documents, call>>
              Iteration(run, template) ==
                  /\ enhance_calls' = run.enhance_calls
                  /\ IF Raised(run.outcome) THEN Failed(run.outcome)
                     ELSE IF Raised(template) THEN Failed(template)
                     ELSE Stored(run.outcome.value, template.value)
          IN  Iteration(generate_narrative_run(templates, enhancer, enh_result,
                                               FieldConfig, subjects, adverse_events,
                                               treatment_exposure, subject_id,
                                               sequence_number),
                        select_template(templates,
                                        Or(get_event_data(adverse_events, subject_id,
                                                          sequence_number), EmptyDict)))
    /\ clock' = clock + 1
    /\ UNCHANGED <<templates, enhancer, subjects, adverse_events, treatment_exposure,
                   connections>>

\* After the loop: the batch report, then the number of events fetched.
FinishBatch ==
    /\ call.op = "generate_all_saes"
    /\ ret = Pending
    /\ call.idx = Len(call.sae_events)
    /\ documents' = create_batch_document(documents, call.narratives_list,
                                          "batch_report.docx")
    /\ ret' = Return(Len(call.sae_events))
    /\ UNCHANGED <<templates, enhancer, subjects, adverse_events, treatment_exposure,
                   narratives, clock, call, enhance_calls, connections>>

NextBatch == StartBatch \/ BatchEvent \/ FinishBatch

BatchSpec == InitBatch /\ [][NextBatch]_vars

---------------------------------------------------------------------------
(* Claims about generate_all_saes                                          *)

\* The default-mode batch has ended, by return or by exception, the data
\* store and the file system having worked.
BatchEnded ==
    /\ call.op = "generate_all_saes"
    /\ ~call.include_non_serious
    /\ ret # Pending
    /\ Raised(ret) => ret.exc \notin {"OperationalError", "OSError"}

\* The adverse events with serious_event = 'Y' and treatment_emergent = 'Y'.
SeriousEvents ==
    {key \in DOMAIN adverse_events :
        /\ adverse_events[key].serious_event = PyStr("Y")
        /\ adverse_events[key].treatment_emergent = PyStr("Y")}

\* The files written for single events.
EventDocuments ==
    {i \in 1..Len(documents) : "subject_id" \in DOMAIN documents[i]}

\* C19: from an empty narratives table, the default-mode batch appends one
\* narratives row and writes one document for each adverse event with
\* serious_event = 'Y' and treatment_emergent = 'Y', in ascending
\* (subject_id, sequence_number) order, and returns their number, which is
\* then the row count and the number of per-event documents.
C19_BatchOneRowAndDocumentPerSae ==
    BatchEnded =>
        /\ ret = Return(Cardinality(SeriousEvents))
        /\ Len(narratives) = Cardinality(SeriousEvents)
        /\ Cardinality(EventDocuments) = Cardinality(SeriousEvents)
        /\ \A key \in SeriousEvents :
              /\ Cardinality(RowsOf(narratives, key[1], key[2])) = 1
              /\ Cardinality({i \in EventDocuments :
                                 /\ documents[i].subject_id = key[1]
                                 /\ documents[i].sequence_number = key[2]}) = 1
        /\ \A i \in 1..Len(narratives), j \in 1..Len(narratives) :
              i < j => /\ KeyBefore(<<narratives[i].subject_id, narratives[i].sequence_number>>,
                                    <<narratives[j].subject_id, narratives[j].sequence_number>>)
                       /\ narratives[i].id < narratives[j].id

\* C29: batch selection agrees with template selection: a treatment-emergent
\* adverse event is among the events of the default (SAE-only) batch if and
\* only if select_template treats it as serious (serious_event "Y" in any
\* letter case) and gives it an SAE template.
C29_BatchSelectionAgreesWithTemplates ==
    (call.op = "generate_all_saes" /\ ~call.include_non_serious)
    => \A key \in DOMAIN adverse_events :
          LET Agrees(template) ==
                  (\E k \in 1..Len(call.sae_events) : call.sae_events[k] = key)
                  <=> /\ NormalizeFlag(adverse_events[key], "serious_event") = "Y"
                      /\ Returned(template)
                      /\ template.value.template_id # TemplateId("ae_non_serious")
          IN  adverse_events[key].treatment_emergent = PyStr("Y")
              => Agrees(select_template(templates, adverse_events[key]))

\* The batch ended by an exception; call.idx events were completed before.
BatchFailed == call.op = "generate_all_saes" /\ Raised(ret)

\* The first n rows of narratives are the rows of the first n events of the
\* batch, in their order.
RowsOfFirstEvents(n) ==
    /\ n <= Len(narratives)
    /\ \A i \in 1..n :
          <<narratives[i].subject_id, narratives[i].sequence_number>> = call.sae_events[i]

BatchReports == {i \in 1..Len(documents) : "subject_id" \notin DOMAIN documents[i]}

\* C30 as stated: events are processed one after another, each row committed
\* before the next event starts; when generation, saving or export raises
\* for the k-th event, the exception ends the batch, the rows of the k-1
\* earlier events remain, there is no row for the k-th or a later event, and
\* no batch report is produced.
C30_FailedEventLeavesNoRow ==
    /\ (call.op = "generate_all_saes" /\ ret = Pending)
          => Len(narratives) = call.idx /\ RowsOfFirstEvents(call.idx)
    /\ BatchFailed
          => /\ Len(narratives) = call.idx
             /\ RowsOfFirstEvents(call.idx)
             /\ BatchReports = {}

\* The row of the failed event exists exactly when its export raised.
ExportFailed == BatchFailed /\ ret.exc = "OSError"

\* C30 amended: as stated when generation or saving raises for the k-th
\* event; when the export of the k-th event raises, its row, committed
\* before the export, remains stored as well, and in every case there is no
\* row for a later event and no batch report.
C30_FailedBatchKeepsCommittedRows ==
    /\ (call.op = "generate_all_saes" /\ ret = Pending)
          => Len(narratives) = call.idx /\ RowsOfFirstEvents(call.idx)
    /\ BatchFailed
          => /\ Len(narratives) = (IF ExportFailed THEN call.idx + 1 ELSE call.idx)
             /\ RowsOfFirstEvents(Len(narratives))
             /\ BatchReports = {}
             /\ Len(documents) = call.idx

C30_Witness ==
    /\ ExportFailed
    /\ call.idx = 1
    /\ Len(call.sae_events) = 3
    /\ Len(narratives) = 2

---------------------------------------------------------------------------
(* ADAELoader.load_to_database: the records of the input sheet are          *)
(* extracted and written with INSERT OR REPLACE in one transaction.         *)

MaxRecords == 3

\* ADAELoader._clean_string on a text cell: stripped, None when empty.
clean_string(value) ==
    IF value = None THEN None
    ELSE IF Strip(PyFormat(value)) = "" THEN None
    ELSE PyStr(Strip(PyFormat(value)))

\* ADAELoader._safe_int on a whole-number cell.
safe_int(value) == IF value = None THEN None ELSE value

\* DataFrame.drop_duplicates(subset=[Unique Subject Identifier]): the first
\* record of every identifier as written in the sheet.
drop_duplicates(df) ==
    SelectSeq([i \in 1..Len(df) |->
                 [record |-> df[i],
                  first |-> \A j \in 1..(i - 1) : df[j].subject_id # df[i].subject_id]],
              LAMBDA entry : entry.first)

\* The records to insert, each with the value of its table's unique columns.
extract_subjects(df) ==
    [i \in 1..Len(drop_duplicates(df)) |->
        [key |-> clean_string(drop_duplicates(df)[i].record.subject_id).v,
         row |-> [age |-> safe_int(drop_duplicates(df)[i].record.age),
                  sex |-> clean_string(drop_duplicates(df)[i].record.sex)]]]

extract_adverse_events(df) ==
    [i \in 1..Len(df) |->
        [key |-> <<clean_string(df[i].subject_id).v, safe_int(df[i].sequence_number).v>>,
         row |-> [serious_event |-> clean_string(df[i].serious_event),
                  hospitalization |-> None,
                  other_medically_important |-> None,
                  preferred_term |-> clean_string(df[i].preferred_term),
                  start_date |-> None,
                  end_date |-> None,
                  action_taken |-> None,
                  treatment_emergent |-> None]]]

extract_treatment_exposure(df) ==
    [i \in 1..Len(drop_duplicates(df)) |->
        [key |-> clean_string(drop_duplicates(df)[i].record.subject_id).v,
         row |-> [last_dose_date |-> None]]]

RECURSIVE insert_records(_, _)
\* ADAELoader._insert_records: INSERT OR REPLACE of every record in order;
\* a record whose unique columns equal a stored row's replaces that row.
insert_records(table, records) ==
    IF records = << >> THEN table
    ELSE insert_records(
             [key \in DOMAIN table \cup {Head(records).key} |->
                 IF key = Head(records).key THEN Head(records).row ELSE table[key]],
             Tail(records))

\* The sheet: up to MaxRecords records of two subjects, one identifier
\* written with a leading blank.
SheetRecords ==
    {[subject_id |-> PyStr(subject_id), sequence_number |-> PyInt(sequence_number),
      age |-> PyInt(74), sex |-> PyStr("M"), serious_event |-> PyStr("Y"),
      preferred_term |-> PyStr(preferred_term)]
       : subject_id \in {"S1", " S1", "S2"}, sequence_number \in {1, 2},
         preferred_term \in {"RASH", "GI BLEED "}}

Sheets == UNION {[1..n -> SheetRecords] : n \in 0..MaxRecords}

InitLoad ==
    /\ templates = EmptyDict
    /\ enhancer = None
    /\ subjects = EmptyDict
    /\ adverse_events = EmptyDict
    /\ treatment_exposure = EmptyDict
    /\ narratives = << >>
    /\ clock = 0
    /\ call \in {[op |-> "load_to_database", df |-> df] : df \in Sheets}
    /\ ret = Pending
    /\ enhance_calls = << >>
    /\ documents = << >>
    /\ connections = << >>

\* load_to_database: the three inserts commit together; each count is the
\* number of records handed to executemany.
LoadToDatabase ==
    /\ call.op = "load_to_database"
    /\ ret = Pending
    /\ subjects' = insert_records(subjects, extract_subjects(call.df))
    /\ adverse_events' = insert_records(adverse_events, extract_adverse_events(call.df))
    /\ treatment_exposure' =
          insert_records(treatment_exposure, extract_treatment_exposure(call.df))
    /\ ret' = Return([subjects |-> Len(extract_subjects(call.df)),
                      adverse_events |-> Len(extract_adverse_events(call.df)),
                      treatment_exposure |-> Len(extract_treatment_exposure(call.df))])
    /\ UNCHANGED <<templates, enhancer, narratives, clock, call, enhance_calls, documents,
                   connections>>

NextLoad == LoadToDatabase

LoadSpec == InitLoad /\ [][NextLoad]_vars

---------------------------------------------------------------------------
(* Claims about load_to_database                                           *)

Loaded == call.op = "load_to_database" /\ Returned(ret)

\* The subject identifiers of the sheet, as stored.
SheetSubjects == {Strip(call.df[i].subject_id.v) : i \in 1..Len(call.df)}

\* C20: after load_to_database into an empty database every returned count
\* is the number of rows stored in its table; adverse_events holds one row
\* per input record and subjects one row per distinct subject identifier;
\* every stored event refers to a stored subject.  ((subject_id,
\* sequence_number) is the key of adverse_events, so it is unique.)
C20_LoadCountsAreRowsStored ==
    Loaded =>
        /\ ret.value.subjects = Cardinality(DOMAIN subjects)
        /\ ret.value.adverse_events = Cardinality(DOMAIN adverse_events)
        /\ ret.value.treatment_exposure = Cardinality(DOMAIN treatment_exposure)
        /\ Cardinality(DOMAIN adverse_events) = Len(call.df)
        /\ DOMAIN subjects = SheetSubjects
        /\ \A key \in DOMAIN adverse_events : key[1] \in DOMAIN subjects

---------------------------------------------------------------------------
(* Concurrent save_to_database calls: every call opens a connection of its *)
(* own; SQLite admits one writing transaction at a time, and a connection  *)
(* that finds the database locked gives up when its busy timeout (the 5 s  *)
(* default of sqlite3.connect) has passed.                                 *)

MaxSavers == 2

Savers == 1..MaxSavers

\* The connection that holds the write lock: it has inserted, not committed.
Writers == {p \in Savers : connections[p].pc = "inserted"}

InitConcurrent ==
    /\ templates = EmptyDict
    /\ enhancer = None
    /\ subjects = EmptyDict
    /\ adverse_events = EmptyDict
    /\ treatment_exposure = EmptyDict
    /\ narratives = << >>
    /\ clock = 0
    /\ call = NoCall
    /\ ret = Pending
    /\ enhance_calls = << >>
    /\ documents = << >>
    /\ connections = [p \in Savers |-> [pc |-> "idle"]]

\* The call is made: the timestamp is read, the connection opened.
BeginSave(p) ==
    /\ connections[p].pc = "idle"
    /\ \E subject_id \in SavedSubjects, narrative_text \in SavedTexts :
          connections' = [connections EXCEPT ![p] =
                             [pc |-> "connected",
                              subject_id |-> subject_id,
                              sequence_number |-> 1,
                              narrative_text |-> narrative_text,
                              timestamp |-> clock,
                              template_id |-> TemplateId("sae_generic")]]
    /\ clock' = clock + 1
    /\ UNCHANGED <<templates, enhancer, subjects, adverse_events, treatment_exposure,
                   narratives, call, ret, enhance_calls, documents>>

\* The INSERT: it opens the writing transaction, which no other connection
\* may hold at the same time.
InsertRow(p) ==
    /\ connections[p].pc = "connected"
    /\ Writers = {}
    /\ connections' = [connections EXCEPT ![p].pc = "inserted"]
    /\ UNCHANGED <<templates, enhancer, subjects, adverse_events, treatment_exposure,
                   narratives, clock, call, ret, enhance_calls, documents>>

\* The INSERT finds the database locked until the busy timeout has passed:
\* sqlite3.OperationalError leaves save_to_database, nothing is written.
BusyTimeout(p) ==
    /\ connections[p].pc = "connected"
    /\ Writers # {}
    /\ connections' = [connections EXCEPT ![p] =
                           [@ EXCEPT !.pc = "raised"] @@
                           [outcome |-> Raise("OperationalError", "database is locked")]]
    /\ UNCHANGED <<templates, enhancer, subjects, adverse_events, treatment_exposure,
                   narratives, clock, call, ret, enhance_calls, documents>>

\* last_insert_rowid() is read and the with block commits: the row becomes
\* part of the table and the lock is released.
CommitSave(p) ==
    /\ connections[p].pc = "inserted"
    /\ narratives' = save_to_database(narratives, connections[p].timestamp,
                                      connections[p].subject_id,
                                      connections[p].sequence_number,
                                      connections[p].narrative_text,
                                      connections[p].template_id)
    /\ connections' = [connections EXCEPT ![p] =
                           [@ EXCEPT !.pc = "returned"] @@
                           [outcome |-> Return(Len(narratives) + 1)]]
    /\ UNCHANGED <<templates, enhancer, subjects, adverse_events, treatment_exposure,
                   clock, call, ret, enhance_calls, documents>>

NextConcurrent ==
    \E p \in Savers : BeginSave(p) \/ InsertRow(p) \/ BusyTimeout(p) \/ CommitSave(p)

ConcurrentSpec == InitConcurrent /\ [][NextConcurrent]_vars

---------------------------------------------------------------------------
(* Claims about concurrent saves                                           *)

AllSavesEnded == \A p \in Savers : connections[p].pc \in {"returned", "raised"}

\* Row i of the log holds the values of the call made on connection p.
RowOfCall(i, p) ==
    /\ narratives[i].subject_id = connections[p].subject_id
    /\ narratives[i].sequence_number = connections[p].sequence_number
    /\ narratives[i].narrative_text = connections[p].narrative_text
    /\ narratives[i].generation_date = connections[p].timestamp
    /\ narratives[i].template_used = connections[p].template_id

---------------------------------------------------------------------------
(* generate_narrative with the enhance call as a step of its own: the      *)
(* request waits in enhancer.enhance(...) until the collaborator answers.  *)
(* Neither generate_narrative nor OpenAINarrativeEnhancer passes or        *)
(* enforces a timeout, so nothing but the collaborator ends the wait.      *)

InitWait ==
    /\ templates = FullTemplates
    /\ enhancer \in {None, OpenAIEnhancer, OtherEnhancer}
    /\ subjects \in OneRowTables("S1", SubjectRows)
    /\ adverse_events \in OneRowTables(<<"S1", 1>>, EventRows)
    /\ treatment_exposure \in OneRowTables("S1", TreatmentRows)
    /\ narratives = << >>
    /\ clock = 0
    /\ call = NoCall
    /\ ret = Pending
    /\ enhance_calls = << >>
    /\ documents = << >>
    /\ connections = << >>

\* generate_narrative up to and including the call of enhancer.enhance: a
\* request without an enhancer, or one that raised before, ends here.
StartRequest ==
    /\ call = NoCall
    /\ \E subject_id \in SubjectIds, sequence_number \in SequenceNumbers :
          /\ call' = [op |-> "generate_narrative", subject_id |-> subject_id,
                      sequence_number |-> sequence_number]
          /\ LET Called(baseline, field_values, template) ==
                     IF Raised(baseline) \/ enhancer = None
                     THEN ret' = baseline /\ enhance_calls' = << >>
                     ELSE /\ ret' = Pending
                          /\ enhance_calls' =
                                <<EnhanceCall(field_values, template.value.template_id,
                                              baseline.value, Pending)>>
             IN  Called(generate_narrative(templates, None, [kind |-> "not_called"],
                                           FieldConfig, subjects, adverse_events,
                                           treatment_exposure, subject_id,
                                           sequence_number),
                        map_all_fields(FieldConfig, subjects, adverse_events,
                                       treatment_exposure, subject_id, sequence_number),
                        select_template(templates,
                                        Or(get_event_data(adverse_events, subject_id,
                                                          sequence_number), EmptyDict)))
    /\ UNCHANGED <<templates, enhancer, subjects, adverse_events, treatment_exposure,
                   narratives, clock, documents, connections>>

\* The collaborator answers or fails; generate_narrative returns what
\* enhance returned, or the exception leaves it.
EnhanceReturns ==
    /\ call.op = "generate_narrative"
    /\ ret = Pending
    /\ \E enh_result \in EnhancerResults(enhancer) :
          LET Answered(outcome) ==
                  /\ ret' = outcome
                  /\ enhance_calls' = <<[enhance_calls[1] EXCEPT !.outcome = outcome]>>
          IN  Answered(Enhance(enhancer, enh_result, enhance_calls[1].field_values,
                               enhance_calls[1].template_id,
                               enhance_calls[1].baseline_text))
    /\ UNCHANGED <<templates, enhancer, subjects, adverse_events, treatment_exposure,
                   narratives, clock, call, documents, connections>>

NextWait == StartRequest \/ EnhanceReturns

WaitSpec == InitWait /\ [][NextWait]_vars

\* The step of NextWait in which a request begins: the StartRequest steps.
RequestBegins ==
    /\ call = NoCall
    /\ call' \in {[op |-> "generate_narrative", subject_id |-> subject_id,
                   sequence_number |-> sequence_number] :
                      subject_id \in SubjectIds, sequence_number \in SequenceNumbers}

\* The program takes its own steps; nothing obliges the collaborator to
\* answer.
LiveWaitSpec == WaitSpec /\ WF_call(RequestBegins)

---------------------------------------------------------------------------
(* Claims about waiting for the enhancer                                   *)

WaitingForEnhancer == call.op = "generate_narrative" /\ ret = Pending

\* C22: the enhancement call is bounded by an enforced timeout: a request
\* that waits for the collaborator eventually ends even when the
\* collaborator never responds, and while it waits no save_to_database
\* connection or transaction is open.
C22_EnhanceCallIsBounded ==
    /\ WaitingForEnhancer ~> ~WaitingForEnhancer
    /\ [](WaitingForEnhancer => connections = << >>)

---------------------------------------------------------------------------
(* One paragraph and its enhancement as a state machine: Init draws a      *)
(* generate_paragraph request or an enhance request, the actions apply     *)
(* generate_paragraph and OpenAINarrativeEnhancer.enhance.                 *)

\* Paragraph configurations: no variations, both variants, one of the two.
ParagraphConfigs ==
    LET with == "Resolved on {end_date}."
        without == "The event is ongoing."
    IN  {[number |-> 1, template |-> base] : base \in {"SAE of RASH.", "{sex} subject."}}
        \cup {[number |-> 1, template |-> "SAE of RASH.", variations |-> v]
                 : v \in {[with_end_date |-> with, without_end_date |-> without],
                          [with_end_date |-> with],
                          [without_end_date |-> without]}}

\* Resolved field values with every kind of end_date the database may hold.
ParagraphFieldValues ==
    {[sex |-> PyStr("MALE")]}
    \cup {[sex |-> PyStr("MALE"), end_date |-> e]
             : e \in {None, PyStr(""), PyStr("nan"), PyStr("NaN"), PyStr("25-Jan-2024")}}

\* Baseline narratives handed to enhance, with and without outer white space.
BaselineTexts == {"SAE of rash.", " SAE of rash.\n", ""}

InitParagraph ==
    /\ templates = EmptyDict
    /\ enhancer = OpenAIEnhancer
    /\ subjects = EmptyDict
    /\ adverse_events = EmptyDict
    /\ treatment_exposure = EmptyDict
    /\ narratives = << >>
    /\ clock = 0
    /\ call \in {[op |-> "generate_paragraph", paragraph_config |-> pc,
                  field_values |-> fv]
                    : pc \in ParagraphConfigs, fv \in ParagraphFieldValues}
               \cup {[op |-> "enhance", client_result |-> cr, field_values |-> fv,
                      template_id |-> "SAE_GENERIC_V1", baseline_text |-> text]
                       : cr \in ClientResults, fv \in ParagraphFieldValues,
                         text \in BaselineTexts}
    /\ ret = Pending
    /\ enhance_calls = << >>
    /\ documents = << >>
    /\ connections = << >>

GenerateParagraph ==
    /\ call.op = "generate_paragraph"
    /\ ret = Pending
    /\ ret' = generate_paragraph(call.paragraph_config, call.field_values)
    /\ UNCHANGED <<templates, enhancer, subjects, adverse_events, treatment_exposure,
                   narratives, clock, call, enhance_calls, documents, connections>>

EnhanceText ==
    /\ call.op = "enhance"
    /\ ret = Pending
    /\ ret' = openai_enhance(call.client_result, call.field_values, call.template_id,
                             call.baseline_text)
    /\ UNCHANGED <<templates, enhancer, subjects, adverse_events, treatment_exposure,
                   narratives, clock, call, enhance_calls, documents, connections>>

NextParagraph == GenerateParagraph \/ EnhanceText

ParagraphSpec == InitParagraph /\ [][NextParagraph]_vars

---------------------------------------------------------------------------
(* Claims about one paragraph and its enhancement                          *)

ParagraphGenerated == call.op = "generate_paragraph" /\ ret # Pending

\* The pattern the claim selects: the base pattern, followed by the variant
\* for a present or an absent end_date when the paragraph declares it.
PatternFor(paragraph_config, end_date_present) ==
    LET key == IF end_date_present THEN "with_end_date" ELSE "without_end_date"
        variations == Variations(paragraph_config)
    IN  IF key \in DOMAIN variations
        THEN paragraph_config.template \o " " \o variations[key]
        ELSE paragraph_config.template

\* C24: generate_paragraph uses the with-end-date variant exactly when the
\* resolved end_date is present, that is when fill_template does not render
\* it as "[NOT AVAILABLE]", and the no-end-date variant otherwise; without
\* variations, or without the selected variant, the base pattern alone is
\* used.
C24_VariantByEndDatePresence ==
    ParagraphGenerated
    => LET Holds(filled) ==
               /\ Returned(filled)
               /\ ret = Return(apply_business_rules(filled.value))
       IN  Holds(fill_template(
                    PatternFor(call.paragraph_config,
                               ~IsMissingValue(Get(call.field_values, "end_date"))),
                    call.field_values))

Enhanced == call.op = "enhance" /\ ret # Pending

\* The client call failed, the response was malformed, or its content was
\* empty or None.
NoReply ==
    \/ call.client_result.kind \in {"raises", "no_choices"}
    \/ call.client_result.content \in {None, PyStr("")}

\* C25: OpenAINarrativeEnhancer.enhance never raises on a failure of the
\* client call, and returns baseline_text exactly as passed in whenever the
\* client call raises, the response is malformed, or the content is empty
\* or None; only a non-empty reply gives a result other than baseline_text.
C25_EnhanceFallsBackToExactBaseline ==
    Enhanced
    => /\ Returned(ret)
       /\ NoReply => ret.value = call.baseline_text

=============================================================================
